---- MODULE Spec2Model ----
(***************************************************************************)
(* Ingestion pipeline of the Serverless-Rag backend:                       *)
(* FileService.upload_file, ServiceBase.validate_file and GeminiService,   *)
(* run as coroutines of one asyncio event loop against object storage      *)
(* (MinIO), the metadata store (Firestore) and the Gemini File Search      *)
(* service.                                                                *)
(*                                                                         *)
(* Strings the code inspects character by character (filenames, type      *)
(* tags) are sequences of one-character strings.                          *)
(***************************************************************************)
EXTENDS Integers, Sequences, FiniteSets, TLC

(***************************************************************************)
(* Bounds of the model.                                                    *)
(***************************************************************************)
\* number of request slots (each slot serves one request)
NumReqs == 2
\* the clock takes the values 0..MaxTime
MaxTime == 1
\* number of distinct values the random part of a storage path can take
NumUids == 2

Reqs == 1..NumReqs
\* Python's None, for each type of value that can be absent
None == "None"
NoType == << >>
NoPath == [user |-> "", ts |-> 0, uid |-> 0, name |-> << >>]
NoUrl == << >>
NoStore == 0
NoDoc == << >>
\* no FileResponse yet; document ids start at 1
NoResponse == [id |-> 0]

(***************************************************************************)
(* Program constants.                                                      *)
(***************************************************************************)
MAX_FILE_SIZE == 104857600

ALLOWED_FILE_TYPES ==
  { <<"p","d","f">>, <<"d","o","c","x">>, <<"d","o","c">>, <<"t","x","t">>,
    <<"m","d">>, <<"c","s","v">>, <<"x","l","s","x">>, <<"x","l","s">>,
    <<"p","p","t","x">>, <<"p","p","t">> }

\* display name of the application's File Search store
STORE_LABEL == "servless-rag-store"

(***************************************************************************)
(* Inputs.                                                                 *)
(***************************************************************************)
F_empty == << >>
F_pdf   == <<"a",".","p","d","f">>
F_PDF   == <<"a",".","P","D","F">>
F_text  == <<"n",".","t","e","x","t">>
F_exe   == <<"v",".","e","x","e">>
F_noext == <<"r","e","a","d","m","e">>

\* filenames offered to the upload endpoint
Filenames == {F_empty, F_pdf, F_exe}
\* byte lengths of uploaded contents
Sizes == {7, MAX_FILE_SIZE + 1}
\* content type the multipart part declares (UploadFile.content_type)
ContentTypes == {"application/pdf"}

(***************************************************************************)
(* String helpers (str.lower, str.split(".")[-1]).                         *)
(***************************************************************************)
LowerChar(c) ==
  CASE c = "P" -> "p"
    [] c = "D" -> "d"
    [] c = "F" -> "f"
    [] OTHER   -> c

Lower(s) == [i \in 1..Len(s) |-> LowerChar(s[i])]

\* index of the last "." of s, 0 when there is none
LastDot(s) ==
  LET dots == {i \in 1..Len(s) : s[i] = "."}
  IN IF dots = {} THEN 0 ELSE CHOOSE i \in dots : \A j \in dots : j <= i

\* s.split(".")[-1]
LastPart(s) == SubSeq(s, LastDot(s) + 1, Len(s))

\* mimetypes.guess_type(filename)[0] on the extensions of the inputs
GuessType(filename) ==
  LET ext == Lower(LastPart(filename))
  IN IF LastDot(filename) = 0 THEN None
     ELSE CASE ext = <<"p","d","f">>     -> "application/pdf"
            [] ext = <<"t","e","x","t">> -> "text/plain"
            [] ext = <<"t","x","t">>     -> "text/plain"
            [] ext = <<"e","x","e">>     -> "application/x-msdos-program"
            [] OTHER                     -> None

\* the mime_to_ext table of validate_file; NoType when the key is missing
MimeToExt(mime) ==
  CASE mime = "application/vnd.openxmlformats-officedocument.wordprocessingml.document" -> <<"d","o","c","x">>
    [] mime = "application/vnd.ms-excel" -> <<"x","l","s">>
    [] mime = "application/vnd.openxmlformats-officedocument.spreadsheetml.sheet" -> <<"x","l","s","x">>
    [] mime = "application/vnd.ms-powerpoint" -> <<"p","p","t">>
    [] mime = "application/vnd.openxmlformats-officedocument.presentationml.presentation" -> <<"p","p","t","x">>
    [] mime = "text/markdown" -> <<"m","d">>
    [] mime = "text/plain" -> <<"t","x","t">>
    [] mime = "text/csv" -> <<"c","s","v">>
    [] OTHER -> NoType

\* the type resolution of validate_file (extension, else MIME table, else raw extension)
ResolveType(filename) ==
  LET file_extension == Lower(LastPart(filename))
      mime_type == GuessType(filename)
  IN IF file_extension \in ALLOWED_FILE_TYPES THEN file_extension
     ELSE IF mime_type # None
          THEN IF MimeToExt(mime_type) # NoType THEN MimeToExt(mime_type)
               ELSE file_extension
          ELSE file_extension

\* validate_file without its size check
validate_file_nosize(filename, size) ==
  IF filename = << >> THEN [status |-> 400, file_type |-> NoType, file_size |-> 0, read |-> FALSE]
  ELSE IF ResolveType(filename) \notin ALLOWED_FILE_TYPES
       THEN [status |-> 400, file_type |-> NoType, file_size |-> size, read |-> TRUE]
       ELSE [status |-> 0, file_type |-> ResolveType(filename), file_size |-> size, read |-> TRUE]

\* validate_file with a size check that also refuses the maximum itself
validate_file_ge(filename, size) ==
  IF filename = << >> THEN [status |-> 400, file_type |-> NoType, file_size |-> 0, read |-> FALSE]
  ELSE IF size >= MAX_FILE_SIZE
       THEN [status |-> 413, file_type |-> NoType, file_size |-> size, read |-> TRUE]
       ELSE IF ResolveType(filename) \notin ALLOWED_FILE_TYPES
            THEN [status |-> 400, file_type |-> NoType, file_size |-> size, read |-> TRUE]
            ELSE [status |-> 0, file_type |-> ResolveType(filename), file_size |-> size, read |-> TRUE]

\* validate_file without its check of the resolved type
validate_file_notype(filename, size) ==
  IF filename = << >> THEN [status |-> 400, file_type |-> NoType, file_size |-> 0, read |-> FALSE]
  ELSE IF size > MAX_FILE_SIZE
       THEN [status |-> 413, file_type |-> NoType, file_size |-> size, read |-> TRUE]
       ELSE [status |-> 0, file_type |-> ResolveType(filename), file_size |-> size, read |-> TRUE]

\* ServiceBase.validate_file: status 0 is acceptance, otherwise the HTTP
\* status of the raised HTTPException; read tells whether the stream was read
validate_file(filename, size) ==
  IF filename = << >> THEN [status |-> 400, file_type |-> NoType, file_size |-> 0, read |-> FALSE]
  ELSE IF size > MAX_FILE_SIZE
       THEN [status |-> 413, file_type |-> NoType, file_size |-> size, read |-> TRUE]
       ELSE IF ResolveType(filename) \notin ALLOWED_FILE_TYPES
            THEN [status |-> 400, file_type |-> NoType, file_size |-> size, read |-> TRUE]
            ELSE [status |-> 0, file_type |-> ResolveType(filename), file_size |-> size, read |-> TRUE]


(***************************************************************************)
(* GeminiService.generate_summary_and_keywords.  A response of the model   *)
(* call is one of: the call raises, the text is empty, the text has no     *)
(* SUMMARY:/KEYWORDS: lines, the text follows the requested format.        *)
(***************************************************************************)
Responses == {"raise", "empty", "unparsable", "formatted"}

\* the (summary, keywords) pair the method returns; it catches every
\* Exception itself, so raised is FALSE for every response
generate_summary_and_keywords(resp) ==
  CASE resp = "raise"      -> [raised |-> FALSE, summary |-> "Summary generation failed", keywords |-> << >>]
    [] resp = "empty"      -> [raised |-> FALSE, summary |-> "No summary available", keywords |-> << >>]
    [] resp = "unparsable" -> [raised |-> FALSE, summary |-> "text[:300]", keywords |-> << >>]
    [] OTHER               -> [raised |-> FALSE, summary |-> "parsed summary", keywords |-> <<"k1", "k2">>]

\* a summarizing step in which a failing generation call aborts the upload
SummaryStep_propagate(resp) ==
  IF resp = "raise"
  THEN [ok |-> FALSE, summary |-> None, keywords |-> << >>]
  ELSE [ok |-> TRUE, summary |-> generate_summary_and_keywords(resp).summary,
        keywords |-> generate_summary_and_keywords(resp).keywords]

\* the summarizing block of upload_file (try / except Exception around the
\* call): ok tells whether the upload goes on
SummaryStep(resp) ==
  LET g == generate_summary_and_keywords(resp)
  IN IF g.raised
     THEN [ok |-> TRUE, summary |-> None, keywords |-> << >>]
     ELSE [ok |-> TRUE, summary |-> g.summary, keywords |-> g.keywords]

(***************************************************************************)
(* FileService helpers.                                                    *)
(***************************************************************************)
\* c.isalnum() or c in "._-" on the characters of the inputs
IsSafeChar(c) == c \notin {" ", "/"}

\* the values of str(uuid.uuid4())[:8], numbered
Uids == 1..NumUids

\* FileService._generate_storage_path
\* (files/{user_id}/{timestamp}_{unique_id}_{safe_filename})
_generate_storage_path(user_id, filename, timestamp, unique_id) ==
  [user |-> user_id, ts |-> timestamp, uid |-> unique_id,
   name |-> SelectSeq(filename, IsSafeChar)]

\* the URL _upload_to_storage returns for a stored object
PublicUrl(storage_path) == <<"public_base", "bucket", storage_path>>

\* keys of the metadata dictionary upload_file builds
MetadataFields ==
  {"name", "type", "size_bytes", "storage_path", "public_url",
   "gemini_file_search_store_name", "gemini_document_name",
   "summary", "keywords", "created_at", "updated_at"}

\* a save that writes the descriptive fields only
_save_metadata_partial(metadata) ==
  [k \in {"name", "type", "size_bytes", "storage_path", "public_url",
          "created_at", "updated_at"} |-> metadata[k]]

\* FileService._save_metadata: the document written by doc_ref.set(metadata)
_save_metadata(metadata) == metadata

(***************************************************************************)
(* Control state of an upload_file coroutine.                              *)
(***************************************************************************)
\* positions at which the coroutine is pending or suspended at an await
\* that can give the event loop away, were the store resolution awaited too
YieldPcs_async == {"validate", "blob", "seek", "temp_read", "create"}

\* positions at which the coroutine is pending or suspended at an await
\* (await file.read(), await file.seek(0)); everything after the last
\* await file.read() of upload_file is synchronous code
\* were the count of list_files awaited, the coroutine would be suspended
\* between its two reads
YieldPcs_list_awaited == {"validate", "blob", "seek", "temp_read", "list_count"}

YieldPcs == {"validate", "blob", "seek", "temp_read"}

PollPcs == {"poll_check", "poll_get"}
SyncPcs == {"resolve", "create", "index", "poll_check", "poll_get", "summarize", "persist"}
FinalPcs == {"done", "failed", "cancelled"}
InFlightPcs == YieldPcs \cup SyncPcs

\* the pipeline state (section 4.5 of the design) of a control position
Phase(p) ==
  CASE p = "validate" -> "Validating"
    [] p = "blob" -> "BlobUploading"
    [] p \in {"seek", "temp_read", "resolve", "create", "index", "poll_check", "poll_get"} -> "Indexing"
    [] p = "summarize" -> "Summarizing"
    [] p = "persist" -> "PersistingMetadata"
    [] p = "done" -> "Done"
    [] OTHER -> "None"

\* an upload_file that summarizes right after the blob upload
Succ_reordered(p) ==
  CASE p = "validate" -> "blob"
    [] p = "blob" -> "summarize"
    [] p = "summarize" -> "seek"
    [] p = "seek" -> "temp_read"
    [] p = "temp_read" -> "resolve"
    [] p = "resolve" -> "index"
    [] p = "create" -> "index"
    [] p = "index" -> "poll_check"
    [] p = "poll_check" -> "persist"
    [] p = "persist" -> "done"
    [] OTHER -> p

\* an upload_file that writes the blob after everything else
Succ_blob_last(p) ==
  CASE p = "validate" -> "seek"
    [] p = "seek" -> "temp_read"
    [] p = "temp_read" -> "resolve"
    [] p = "resolve" -> "index"
    [] p = "create" -> "index"
    [] p = "index" -> "poll_check"
    [] p = "poll_check" -> "summarize"
    [] p = "summarize" -> "persist"
    [] p = "persist" -> "blob"
    [] p = "blob" -> "done"
    [] OTHER -> p

\* the statement order of upload_file and upload_and_index_file: the
\* position that follows p when the step at p succeeds
Succ(p) ==
  CASE p = "validate" -> "blob"
    [] p = "blob" -> "seek"
    [] p = "seek" -> "temp_read"
    [] p = "temp_read" -> "resolve"
    [] p = "resolve" -> "index"
    [] p = "create" -> "index"
    [] p = "index" -> "poll_check"
    [] p = "poll_check" -> "summarize"
    [] p = "summarize" -> "persist"
    [] p = "persist" -> "done"
    [] OTHER -> p


(***************************************************************************)
(* State.                                                                  *)
(***************************************************************************)
VARIABLES
  pc,       \* control position of the request of each slot
  file,     \* the UploadFile of each request: filename, size, stream position, reads
  loc,      \* local variables of upload_file and of its GeminiService instance
  status,   \* 0 while running, else the HTTP status (or "cancelled") of the outcome
  failedAt, \* the control position at which the request raised
  effects,  \* the completed pipeline steps of each request, in order
  cancel,   \* whether (and where) cancellation of the request's task was requested
  loop,     \* the requests whose coroutine is running on the event loop (at most one)
  now,      \* the clock
  blobs,    \* object storage: storage path -> request that wrote the object
  stores,   \* File Search stores of the remote service, in listing order
  docs,     \* files submitted to File Search stores
  job,      \* remote import operation started by each request
  records,  \* the "files" collection: document id -> document
  nextId,   \* source of fresh document ids
  arg,      \* the operation and the arguments of a get, delete, list or chat request
  out,      \* what a get, delete, list or chat request has read and produced so far
  gen,      \* the generate_content calls issued by chat requests, in order
  fb,       \* the Firebase app registry, _init_lock and the threads in _get_or_init_app
  bucket    \* the MinIO bucket and the threads in _init_storage

vars == <<pc, file, loc, status, failedAt, effects, cancel, loop, now,
          blobs, stores, docs, job, records, nextId, arg, out, gen, fb, bucket>>

NumThreads == 3

MaxCalls == 2

\* the threads that construct services (the sync dependencies of the
\* endpoints run in the thread pool)
Threads == 1..NumThreads

\* no app registered, _init_lock free (held by no thread), no thread inside
\* _get_or_init_app; got is the app instance the last call of a thread returned
InitFb ==
  [tpc |-> [t \in Threads |-> "out"], lock |-> {}, app |-> 0, inits |-> 0,
   got |-> [t \in Threads |-> 0], calls |-> [t \in Threads |-> 0],
   failed |-> {}]

\* a fresh deployment: the bucket does not exist, no thread is inside
\* _init_storage; found is what bucket_exists answered to the thread, made
\* counts the creations of the bucket, failed holds the threads whose last
\* run raised because the bucket existed already
InitBucket ==
  [tpc |-> [t \in Threads |-> "out"], exists |-> FALSE,
   found |-> [t \in Threads |-> FALSE], made |-> 0,
   calls |-> [t \in Threads |-> 0], failed |-> {}]

\* a request slot that carries no get, delete, list or chat request
NoArg == [kind |-> "none", id |-> 0, message |-> "", page |-> 0, page_size |-> 0]

NoPagination == [page |-> 0, page_size |-> 0, total_pages |-> 0, total_files |-> 0]

\* nothing read and nothing produced yet; data holds what the lookup of the
\* request has read: the document, or for a listing the collection
NoOut ==
  [detail |-> "", data |-> << >>, file |-> NoResponse, files |-> << >>,
   pagination |-> NoPagination, reply |-> << >>, text |-> "",
   blob |-> "untouched", after |-> {}]

InitLoc ==
  [file_type |-> NoType, file_size |-> 0, storage_path |-> NoPath, public_url |-> NoUrl,
   temp |-> "none", _store_name |-> NoStore, store_name |-> NoStore, operation |-> "none",
   document_name |-> NoDoc, summary |-> None, keywords |-> << >>,
   response |-> NoResponse,
   put_length |-> 0, temp_length |-> 0, put_content_type |-> None, reply |-> None]

OtherStore == [name |-> 1, display_name |-> "other-store"]

\* a store of the application whose resource name is empty
AppStore_unnamed == [name |-> NoStore, display_name |-> STORE_LABEL]

\* the File Search store of the application as the service lists it
AppStore == [name |-> 2, display_name |-> STORE_LABEL]

Init ==
  /\ pc = [r \in Reqs |-> "idle"]
  /\ file = [r \in Reqs |-> [filename |-> << >>, content_type |-> None, size |-> 0, pos |-> 0, reads |-> 0]]
  /\ loc = [r \in Reqs |-> InitLoc]
  /\ status = [r \in Reqs |-> 0]
  /\ failedAt = [r \in Reqs |-> None]
  /\ effects = [r \in Reqs |-> << >>]
  /\ cancel = [r \in Reqs |-> "none"]
  /\ loop = {}
  /\ now = 0
  /\ blobs = << >>
  /\ stores \in { << >>, <<OtherStore, AppStore>> }
  /\ docs = {}
  /\ job = [r \in Reqs |-> "none"]
  /\ records = << >>
  /\ nextId = 1
  /\ arg = [r \in Reqs |-> NoArg]
  /\ out = [r \in Reqs |-> NoOut]
  /\ gen = << >>
  /\ fb = InitFb
  /\ bucket = InitBucket

(***************************************************************************)
(* Scheduling: one event loop; a coroutine keeps it until it reaches an    *)
(* await that suspends it or until it finishes.                            *)
(***************************************************************************)
Runs(r) == loop \subseteq {r}

Holder(r, p) == IF p \in YieldPcs \cup FinalPcs THEN {} ELSE {r}

\* the values uuid4 can give next: the values are interchangeable, so a
\* value that was never drawn is represented by the least one
UidChoices ==
  LET used == {loc[r].storage_path.uid : r \in {q \in Reqs : loc[q].storage_path # NoPath}}
  IN {u \in Uids : \A v \in Uids : v < u => v \in used}

\* the readings the clock can give next
ClockReadings == {t \in {now, now + 1} : t <= MaxTime}

\* the request raises at its current position with the given status
Raise(r, st) ==
  /\ pc' = [pc EXCEPT ![r] = "failed"]
  /\ status' = [status EXCEPT ![r] = st]
  /\ failedAt' = [failedAt EXCEPT ![r] = pc[r]]
  /\ loop' = {}

\* the request moves on to position p
Goto(r, p) ==
  /\ pc' = [pc EXCEPT ![r] = p]
  /\ loop' = Holder(r, p)
  /\ UNCHANGED <<status, failedAt>>

\* the finally block of upload_file: unlink the temporary file if its path is known
Unlinked(t) == IF t = "named" THEN "unlinked" ELSE t

(***************************************************************************)
(* Requests.                                                               *)
(***************************************************************************)
\* file.read() on a stream that was left at its end
BytesRead_at_end(f) == f.size - f.size

\* await file.read(): the bytes from the stream position to the end
BytesRead(f) == f.size - f.pos

\* await file.read(): the stream afterwards
read(f) == [f EXCEPT !.reads = @ + 1, !.pos = f.size]

\* a seek that leaves the stream where it is
seek_ignored(f, offset) == f

\* await file.seek(offset)
seek(f, offset) == [f EXCEPT !.pos = offset]

\* POST /files arrives: the endpoint coroutine is scheduled
Start(r, fn, ct, sz) ==
  /\ pc[r] = "idle"
  /\ r > 1 => pc[r - 1] # "idle"
  /\ pc' = [pc EXCEPT ![r] = "validate"]
  /\ file' = [file EXCEPT ![r] = [filename |-> fn, content_type |-> ct, size |-> sz,
                                     pos |-> 0, reads |-> 0]]
  /\ UNCHANGED <<loc, status, failedAt, effects, cancel, loop, now,
                 blobs, stores, docs, job, records, nextId, arg, out, gen, fb, bucket>>

\* upload_file line 40: validate_file
Validate(r) ==
  /\ pc[r] = "validate"
  /\ Runs(r)
  /\ LET v == validate_file(file[r].filename, BytesRead(file[r]))
     IN /\ file' = [file EXCEPT ![r] = IF v.read THEN seek(read(@), 0) ELSE @]
        /\ IF v.status = 0
           THEN /\ loc' = [loc EXCEPT ![r].file_type = v.file_type,
                                      ![r].file_size = v.file_size]
                /\ effects' = [effects EXCEPT ![r] = Append(@, "validated")]
                /\ Goto(r, Succ("validate"))
           ELSE /\ Raise(r, v.status)
                /\ UNCHANGED <<loc, effects>>
  /\ UNCHANGED <<cancel, now, blobs, stores, docs, job, records, nextId, arg, out, gen, fb, bucket>>

\* upload_file lines 43-44: _generate_storage_path, _upload_to_storage
UploadToStorage(r) ==
  /\ pc[r] = "blob"
  /\ Runs(r)
  /\ \E t \in ClockReadings, u \in UidChoices, ok \in BOOLEAN :
       LET path == _generate_storage_path("anonymous", file[r].filename, t, u)
       IN /\ now' = t
          /\ file' = [file EXCEPT ![r] = read(@)]
          /\ IF ok
             THEN /\ blobs' = (path :> r) @@ [q \in DOMAIN blobs \ {path} |-> blobs[q]]
                  /\ loc' = [loc EXCEPT ![r].storage_path = path,
                                        ![r].public_url = PublicUrl(path),
                                        ![r].put_length = BytesRead(file[r]),
                                        ![r].put_content_type =
                                           IF file[r].content_type = None
                                           THEN "application/octet-stream"
                                           ELSE file[r].content_type]
                  /\ effects' = [effects EXCEPT ![r] = Append(@, "blob_put")]
                  /\ Goto(r, Succ("blob"))
             ELSE /\ loc' = [loc EXCEPT ![r].storage_path = path]
                  /\ Raise(r, 500)
                  /\ UNCHANGED <<blobs, effects>>
  /\ UNCHANGED <<cancel, stores, docs, job, records, nextId, arg, out, gen, fb, bucket>>

\* upload_file lines 47-53: rewind the stream, create the temporary file
Rewind(r) ==
  /\ pc[r] = "seek"
  /\ Runs(r)
  /\ file' = [file EXCEPT ![r] = seek(@, 0)]
  /\ loc' = [loc EXCEPT ![r].temp = "unnamed"]
  /\ Goto(r, Succ("seek"))
  /\ UNCHANGED <<effects, cancel, now, blobs, stores, docs, job, records, nextId, arg, out, gen, fb, bucket>>

\* upload_file lines 54-56: read the content and write it to the temporary
\* file; when the read or the write raises, temp_file_path is still None and
\* the finally block unlinks nothing
TempWrite(r) ==
  /\ pc[r] = "temp_read"
  /\ Runs(r)
  /\ \E ok \in BOOLEAN :
       IF ok
       THEN /\ file' = [file EXCEPT ![r] = read(@)]
            /\ loc' = [loc EXCEPT ![r].temp = "named",
                                  ![r].temp_length = BytesRead(file[r])]
            /\ Goto(r, Succ("temp_read"))
       ELSE /\ Raise(r, 500)
            /\ UNCHANGED <<file, loc>>
  /\ UNCHANGED <<effects, cancel, now, blobs, stores, docs, job, records, nextId, arg, out, gen, fb, bucket>>


\* the request raises inside the try block of upload_file: the finally block runs
RaiseInTry(r) ==
  /\ Raise(r, 500)
  /\ loc' = [loc EXCEPT ![r].temp = Unlinked(@)]

\* get_or_create_store lines 32-42: cached name, else the first listed store
\* with the application's display name; "create" follows when there is none
Resolve(r) ==
  /\ pc[r] = "resolve"
  /\ Runs(r)
  /\ \E ok \in BOOLEAN :
       IF loc[r]._store_name # NoStore
       THEN /\ loc' = [loc EXCEPT ![r].store_name = loc[r]._store_name]
            /\ Goto(r, Succ("resolve"))
       ELSE IF ~ok
       THEN RaiseInTry(r)
       ELSE LET found == {i \in 1..Len(stores) : stores[i].display_name = STORE_LABEL}
            IN IF found # {}
               THEN LET i == CHOOSE i \in found : \A j \in found : i <= j
                    IN /\ loc' = [loc EXCEPT ![r]._store_name = stores[i].name,
                                             ![r].store_name = stores[i].name]
                       /\ Goto(r, Succ("resolve"))
               ELSE /\ Goto(r, "create")
                    /\ UNCHANGED loc
  /\ UNCHANGED <<file, effects, cancel, now, blobs, stores, docs, job, records, nextId, arg, out, gen, fb, bucket>>

\* get_or_create_store lines 44-49: create the store
Create(r) ==
  /\ pc[r] = "create"
  /\ Runs(r)
  /\ \E ok \in BOOLEAN :
       IF ok
       THEN LET store == [name |-> Len(stores) + 1, display_name |-> STORE_LABEL]
            IN /\ stores' = Append(stores, store)
               /\ loc' = [loc EXCEPT ![r]._store_name = store.name,
                                     ![r].store_name = store.name]
               /\ Goto(r, Succ("create"))
       ELSE /\ RaiseInTry(r)
            /\ UNCHANGED stores
  /\ UNCHANGED <<file, effects, cancel, now, blobs, docs, job, records, nextId, arg, out, gen, fb, bucket>>

\* upload_and_index_file lines 66-71: upload_to_file_search_store
Index(r) ==
  /\ pc[r] = "index"
  /\ Runs(r)
  /\ \E ok \in BOOLEAN :
       IF ok
       THEN /\ docs' = docs \cup {[store |-> loc[r].store_name, by |-> r]}
            /\ job' = [job EXCEPT ![r] = "running"]
            /\ loc' = [loc EXCEPT ![r].operation = "pending"]
            /\ effects' = [effects EXCEPT ![r] = Append(@, "index_submit")]
            /\ Goto(r, Succ("index"))
       ELSE /\ RaiseInTry(r)
            /\ UNCHANGED <<docs, job, effects>>
  /\ UNCHANGED <<file, cancel, now, blobs, stores, records, nextId, arg, out, gen, fb, bucket>>

\* an extraction of the document name that fails when there is none
document_name_required(j, r) ==
  IF j = "done_doc" THEN [raised |-> FALSE, document_name |-> <<"document", r>>]
  ELSE [raised |-> TRUE, document_name |-> NoDoc]

\* upload_and_index_file lines 78-86: the document name in the metadata of
\* the finished operation, None when the metadata does not hold one
document_name_of(j, r) ==
  IF j = "done_doc" THEN [raised |-> FALSE, document_name |-> <<"document", r>>]
  ELSE [raised |-> FALSE, document_name |-> NoDoc]

\* upload_and_index_file lines 74 and 78-86: the loop test, and after the
\* loop the document name of the finished operation
PollCheck(r) ==
  /\ pc[r] = "poll_check"
  /\ Runs(r)
  /\ IF loc[r].operation = "done"
     THEN LET d == document_name_of(job[r], r)
          IN IF d.raised
             THEN /\ RaiseInTry(r)
                  /\ UNCHANGED effects
             ELSE /\ loc' = [loc EXCEPT ![r].document_name = d.document_name]
                  /\ effects' = [effects EXCEPT ![r] = Append(@, "import_done")]
                  /\ Goto(r, Succ("poll_check"))
     ELSE /\ Goto(r, "poll_get")
          /\ UNCHANGED <<loc, effects>>
  /\ UNCHANGED <<file, cancel, now, blobs, stores, docs, job, records, nextId, arg, out, gen, fb, bucket>>

\* upload_and_index_file lines 75-76: time.sleep(2), operations.get
PollGet(r) ==
  /\ pc[r] = "poll_get"
  /\ Runs(r)
  /\ \E ok \in BOOLEAN :
       IF ok
       THEN /\ loc' = [loc EXCEPT ![r].operation =
                          IF job[r] \in {"done_doc", "done_nodoc"} THEN "done" ELSE "pending"]
            /\ Goto(r, "poll_check")
       ELSE RaiseInTry(r)
  /\ UNCHANGED <<file, effects, cancel, now, blobs, stores, docs, job, records, nextId, arg, out, gen, fb, bucket>>

\* the remote service finishes the import operation of r
JobCompletes(r) ==
  /\ job[r] = "running"
  /\ \E j \in {"done_doc", "done_nodoc"} : job' = [job EXCEPT ![r] = j]
  /\ UNCHANGED <<pc, file, loc, status, failedAt, effects, cancel, loop, now,
                 blobs, stores, docs, records, nextId, arg, out, gen, fb, bucket>>

\* upload_file lines 64-80: summary and keywords, then the finally block
Summarize(r) ==
  /\ pc[r] = "summarize"
  /\ Runs(r)
  /\ \E resp \in Responses :
       LET s == SummaryStep(resp)
       IN IF s.ok
          THEN /\ loc' = [loc EXCEPT ![r].summary = s.summary,
                                     ![r].keywords = s.keywords,
                                     ![r].reply = resp,
                                     ![r].temp = Unlinked(@)]
               /\ effects' = [effects EXCEPT ![r] = Append(@, "summarized")]
               /\ Goto(r, Succ("summarize"))
          ELSE /\ RaiseInTry(r)
               /\ UNCHANGED effects
  /\ UNCHANGED <<file, cancel, now, blobs, stores, docs, job, records, nextId, arg, out, gen, fb, bucket>>

\* upload_file lines 82-109: timestamp, metadata, _save_metadata, FileResponse
Persist(r) ==
  /\ pc[r] = "persist"
  /\ Runs(r)
  /\ \E t \in ClockReadings, ok \in BOOLEAN :
       LET metadata ==
             [name |-> file[r].filename, type |-> loc[r].file_type,
              size_bytes |-> loc[r].file_size,
              storage_path |-> loc[r].storage_path,
              public_url |-> loc[r].public_url,
              gemini_file_search_store_name |-> loc[r].store_name,
              gemini_document_name |-> loc[r].document_name,
              summary |-> loc[r].summary, keywords |-> loc[r].keywords,
              created_at |-> t, updated_at |-> t]
       IN /\ now' = t
          /\ IF ok
             THEN /\ records' = (nextId :> _save_metadata(metadata)) @@ records
                  /\ nextId' = nextId + 1
                  /\ loc' = [loc EXCEPT ![r].response =
                                   [id |-> nextId, name |-> file[r].filename,
                                    type |-> loc[r].file_type,
                                    size_bytes |-> loc[r].file_size,
                                    summary |-> loc[r].summary,
                                    keywords |-> loc[r].keywords,
                                    created_at |-> t, updated_at |-> t]]
                  /\ effects' = [effects EXCEPT ![r] = Append(@, "metadata_write")]
                  /\ pc' = [pc EXCEPT ![r] = Succ("persist")]
                  /\ loop' = Holder(r, Succ("persist"))
                  /\ status' = [status EXCEPT ![r] = 201]
                  /\ UNCHANGED failedAt
             ELSE /\ Raise(r, 500)
                  /\ UNCHANGED <<records, nextId, loc, effects>>
  /\ UNCHANGED <<file, cancel, blobs, stores, docs, job, arg, out, gen, fb, bucket>>

\* cancellation of the task of a request that is in the poll loop is
\* requested (client timeout, shutdown): Task.cancel() only arranges for
\* CancelledError to be thrown at the next await that suspends the coroutine
Cancel(r) ==
  /\ pc[r] \in PollPcs
  /\ cancel[r] = "none"
  /\ cancel' = [cancel EXCEPT ![r] = "in_poll"]
  /\ UNCHANGED <<pc, file, loc, status, failedAt, effects, loop, now,
                 blobs, stores, docs, job, records, nextId, arg, out, gen, fb, bucket>>

\* cancellation of the task of a pending or suspended request: CancelledError
\* is raised at the await at which the coroutine is suspended
Cancelled(r) ==
  /\ pc[r] \in YieldPcs
  /\ pc' = [pc EXCEPT ![r] = "cancelled"]
  /\ status' = [status EXCEPT ![r] = "cancelled"]
  /\ failedAt' = [failedAt EXCEPT ![r] = pc[r]]
  /\ cancel' = [cancel EXCEPT ![r] = "at_await"]
  /\ loop' = loop \ {r}
  /\ UNCHANGED <<file, loc, effects, now,
                 blobs, stores, docs, job, records, nextId, arg, out, gen, fb, bucket>>

\* a step of the coroutine of request r
ReqStep(r) ==
  \/ Validate(r) \/ UploadToStorage(r) \/ Rewind(r) \/ TempWrite(r)
  \/ Resolve(r) \/ Create(r) \/ Index(r) \/ PollCheck(r) \/ PollGet(r)
  \/ Summarize(r) \/ Persist(r)

Next ==
  \/ \E r \in Reqs, fn \in Filenames, ct \in ContentTypes, sz \in Sizes : Start(r, fn, ct, sz)
  \/ \E r \in Reqs : Validate(r)
  \/ \E r \in Reqs : UploadToStorage(r)
  \/ \E r \in Reqs : Rewind(r)
  \/ \E r \in Reqs : TempWrite(r)
  \/ \E r \in Reqs : Resolve(r)
  \/ \E r \in Reqs : Create(r)
  \/ \E r \in Reqs : Index(r)
  \/ \E r \in Reqs : PollCheck(r)
  \/ \E r \in Reqs : PollGet(r)
  \/ \E r \in Reqs : JobCompletes(r)
  \/ \E r \in Reqs : Summarize(r)
  \/ \E r \in Reqs : Persist(r)
  \/ \E r \in Reqs : Cancel(r)
  \/ \E r \in Reqs : Cancelled(r)

Spec == Init /\ [][Next]_vars

\* the event loop keeps running the coroutines it holds; nothing obliges the
\* remote service to finish an import operation
FairSpec == Spec /\ \A r \in Reqs : WF_vars(ReqStep(r))


(***************************************************************************)
(* Get, delete, list and chat requests against a collection that earlier   *)
(* uploads have filled.  These coroutines contain no await that suspends:  *)
(* once scheduled each one keeps the event loop until it returns.          *)
(***************************************************************************)
MaxSeed == 3

\* documents written without a File Search store name (by a writer that did
\* not index): chat_with_file provides for them at lines 27-32
UnlinkedIds == {2}

\* the document a completed upload of a.pdf leaves behind
SeedRecord(id, t) ==
  LET path == _generate_storage_path("anonymous", F_pdf, t, id)
  IN _save_metadata(
       [name |-> F_pdf, type |-> ResolveType(F_pdf), size_bytes |-> 7,
        storage_path |-> path, public_url |-> PublicUrl(path),
        gemini_file_search_store_name |->
          IF id \in UnlinkedIds THEN NoStore ELSE AppStore.name,
        gemini_document_name |-> IF id \in UnlinkedIds THEN NoDoc ELSE <<"document", id>>,
        summary |-> "parsed summary", keywords |-> <<"k1", "k2">>,
        created_at |-> t, updated_at |-> t])

\* the ids a request can name: those of the seeded documents and one that
\* no document ever had
FileIds == 1..(MaxSeed + 1)

StoreInit ==
  /\ pc = [r \in Reqs |-> "idle"]
  /\ file = [r \in Reqs |-> [filename |-> << >>, content_type |-> None, size |-> 0, pos |-> 0, reads |-> 0]]
  /\ loc = [r \in Reqs |-> InitLoc]
  /\ status = [r \in Reqs |-> 0]
  /\ failedAt = [r \in Reqs |-> None]
  /\ effects = [r \in Reqs |-> << >>]
  /\ cancel = [r \in Reqs |-> "none"]
  /\ loop = {}
  /\ now = MaxTime
  /\ stores = <<OtherStore, AppStore>>
  /\ docs = {}
  /\ job = [r \in Reqs |-> "none"]
  /\ \E n \in 0..MaxSeed : \E ct \in [1..n -> 0..MaxTime] :
       /\ records = [i \in 1..n |-> SeedRecord(i, ct[i])]
       /\ blobs = [q \in {SeedRecord(i, ct[i]).storage_path : i \in 1..n} |-> 0]
       /\ nextId = n + 1
  /\ arg = [r \in Reqs |-> NoArg]
  /\ out = [r \in Reqs |-> NoOut]
  /\ gen = << >>
  /\ fb = InitFb
  /\ bucket = InitBucket

\* a request of the given kind arrives: the endpoint coroutine is scheduled
Arrive(r, a, p) ==
  /\ pc[r] = "idle"
  /\ r > 1 => pc[r - 1] # "idle"
  /\ pc' = [pc EXCEPT ![r] = p]
  /\ arg' = [arg EXCEPT ![r] = a]
  /\ UNCHANGED <<file, loc, status, failedAt, effects, cancel, loop, now,
                 blobs, stores, docs, job, records, nextId, out, gen, fb, bucket>>

\* the coroutine returns: the endpoint answers with the given status
Return(r, st) ==
  /\ pc' = [pc EXCEPT ![r] = "done"]
  /\ status' = [status EXCEPT ![r] = st]
  /\ loop' = {}
  /\ UNCHANGED failedAt

\* the coroutine moves on to position p, or returns when p is the end
Proceed(r, p, st) == IF p = "done" THEN Return(r, st) ELSE Goto(r, p)

\* a FileResponse built from the defaults of get_file instead of the document
FileResponseOf_defaults(id, data) ==
  [id |-> id, name |-> data.name, type |-> data.type, size_bytes |-> 0,
   summary |-> None, keywords |-> << >>,
   created_at |-> data.created_at, updated_at |-> data.created_at]

\* get_file lines 163-172, list_files lines 128-137: the FileResponse of a document
FileResponseOf(id, data) ==
  [id |-> id, name |-> data.name, type |-> data.type, size_bytes |-> data.size_bytes,
   summary |-> data.summary, keywords |-> data.keywords,
   created_at |-> data.created_at, updated_at |-> data.updated_at]

\* the requests that have returned
Returned == {d \in Reqs : pc[d] = "done"}

\* GET /files/{file_id}
StartGet(r, id) == Arrive(r, [NoArg EXCEPT !.kind = "get", !.id = id], "get_doc")

\* get_file lines 158-172
GetFile(r) ==
  /\ pc[r] = "get_doc"
  /\ Runs(r)
  /\ IF arg[r].id \notin DOMAIN records
     THEN /\ Raise(r, 404)
          /\ out' = [out EXCEPT ![r].detail = "File not found",
                                ![r].after = Returned]
     ELSE /\ Return(r, 200)
          /\ out' = [out EXCEPT ![r].file = FileResponseOf(arg[r].id, records[arg[r].id]),
                                ![r].after = Returned]
  /\ UNCHANGED <<file, loc, effects, cancel, now, blobs, stores, docs, job,
                 records, nextId, arg, gen, fb, bucket>>

\* DELETE /files/{file_id}
StartDelete(r, id) == Arrive(r, [NoArg EXCEPT !.kind = "delete", !.id = id], "delete_lookup")

\* delete_file, the order of its statements: the removal of the blob
\* precedes the deletion of the document
DeleteSucc_blob_first(p) ==
  CASE p = "delete_lookup" -> "delete_blob"
    [] p = "delete_blob" -> "delete_doc"
    [] p = "delete_doc" -> "done"

\* delete_file, the order of its statements (lines 176-194)
DeleteSucc(p) ==
  CASE p = "delete_lookup" -> "delete_doc"
    [] p = "delete_doc" -> "delete_blob"
    [] p = "delete_blob" -> "done"

\* delete_file without the test of doc.exists: data of a missing document is {}
DeleteLookup_unchecked(r) ==
  /\ pc[r] = "delete_lookup"
  /\ Runs(r)
  /\ Goto(r, DeleteSucc("delete_lookup"))
  /\ out' = [out EXCEPT ![r].data =
                IF arg[r].id \in DOMAIN records THEN <<records[arg[r].id]>>
                ELSE <<[storage_path |-> NoPath]>>]
  /\ UNCHANGED <<file, loc, effects, cancel, now, blobs, stores, docs, job,
                 records, nextId, arg, gen, fb, bucket>>

\* delete_file lines 176-181
DeleteLookup(r) ==
  /\ pc[r] = "delete_lookup"
  /\ Runs(r)
  /\ IF arg[r].id \notin DOMAIN records
     THEN /\ Raise(r, 404)
          /\ out' = [out EXCEPT ![r].detail = "File not found"]
     ELSE /\ Goto(r, DeleteSucc("delete_lookup"))
          /\ out' = [out EXCEPT ![r].data = <<records[arg[r].id]>>]
  /\ UNCHANGED <<file, loc, effects, cancel, now, blobs, stores, docs, job,
                 records, nextId, arg, gen, fb, bucket>>

\* delete_file line 184: doc_ref.delete(); when it raises the request fails
\* and the document stays
DeleteDoc(r) ==
  /\ pc[r] = "delete_doc"
  /\ Runs(r)
  /\ \E ok \in BOOLEAN :
       IF ok
       THEN /\ records' = [i \in DOMAIN records \ {arg[r].id} |-> records[i]]
            /\ Proceed(r, DeleteSucc("delete_doc"), 204)
       ELSE /\ Raise(r, 500)
            /\ UNCHANGED records
  /\ UNCHANGED <<file, loc, effects, cancel, now, blobs, stores, docs, job,
                 nextId, arg, out, gen, fb, bucket>>

\* delete_file lines 190-194 without the except clause
remove_object_unguarded(ok) == [raised |-> ~ok]

\* delete_file lines 190-194: an exception of remove_object is printed and dropped
remove_object_guarded(ok) == [raised |-> FALSE]

\* delete_file lines 187-194: the removal of the blob
DeleteBlob(r) ==
  /\ pc[r] = "delete_blob"
  /\ Runs(r)
  /\ LET storage_path == out[r].data[1].storage_path
     IN IF storage_path = NoPath
        THEN /\ Proceed(r, DeleteSucc("delete_blob"), 204)
             /\ UNCHANGED <<blobs, out>>
        ELSE \E ok \in BOOLEAN :
               /\ blobs' = IF ok THEN [q \in DOMAIN blobs \ {storage_path} |-> blobs[q]]
                                 ELSE blobs
               /\ out' = [out EXCEPT ![r].blob = IF ok THEN "removed" ELSE "remove_failed"]
               /\ IF remove_object_guarded(ok).raised
                  THEN Raise(r, 500)
                  ELSE Proceed(r, DeleteSucc("delete_blob"), 204)
  /\ UNCHANGED <<file, loc, effects, cancel, now, stores, docs, job,
                 records, nextId, arg, gen, fb, bucket>>

\* the messages a chat request can carry (ChatRequest: at least one character)
Messages == {"question"}

\* what generate_content can do: raise, or return a response whose text is
\* empty (or None), or one that has text
Replies ==
  {[raised |-> TRUE, text |-> ""], [raised |-> FALSE, text |-> ""],
   [raised |-> FALSE, text |-> "answer one"], [raised |-> FALSE, text |-> "answer two"]}

\* POST /chat/{file_id}
StartChat(r, id, msg) ==
  Arrive(r, [NoArg EXCEPT !.kind = "chat", !.id = id, !.message = msg], "chat_lookup")

\* chat_with_file lines 22-26 without the test of doc.exists: to_dict() of a
\* missing document is None and data becomes {}
doc_check_skipped(exists) == [status |-> 0, detail |-> ""]

\* chat_with_file lines 22-24
doc_check(exists) ==
  IF ~exists THEN [status |-> 404, detail |-> "File not found"]
             ELSE [status |-> 0, detail |-> ""]

\* chat_with_file lines 27-32 without the test of store_name
store_check_skipped(store_name) == [status |-> 0, detail |-> ""]

\* chat_with_file lines 27-32: a store name that is missing, None or empty is falsy
store_check(store_name) ==
  IF store_name = NoStore
  THEN [status |-> 500, detail |-> "File is not yet linked to a Gemini File Search store"]
  ELSE [status |-> 0, detail |-> ""]

\* chat_with_file lines 22-32: the document and its store name
ChatLookup(r) ==
  /\ pc[r] = "chat_lookup"
  /\ Runs(r)
  /\ LET exists == arg[r].id \in DOMAIN records
         data == IF exists THEN <<records[arg[r].id]>> ELSE << >>
         store_name == IF exists THEN data[1].gemini_file_search_store_name ELSE NoStore
         d == doc_check(exists)
         c == IF d.status # 0 THEN d ELSE store_check(store_name)
     IN IF c.status # 0
        THEN /\ Raise(r, c.status)
             /\ out' = [out EXCEPT ![r].detail = c.detail, ![r].data = data]
             /\ UNCHANGED loc
        ELSE /\ Goto(r, "chat_generate")
             /\ out' = [out EXCEPT ![r].data = data]
             /\ loc' = [loc EXCEPT ![r].store_name = store_name]
  /\ UNCHANGED <<file, effects, cancel, now, blobs, stores, docs, job,
                 records, nextId, arg, gen, fb, bucket>>

\* chat_with_file lines 49-57 without the test of response.text
chat_outcome_unchecked(reply) ==
  IF reply.raised THEN [status |-> 500, detail |-> "Chat failed", text |-> ""]
  ELSE [status |-> 200, detail |-> "", text |-> reply.text]

\* chat_with_file lines 49-57: what becomes of the reply of generate_content
chat_outcome(reply) ==
  IF reply.raised THEN [status |-> 500, detail |-> "Chat failed", text |-> ""]
  ELSE IF reply.text = ""
  THEN [status |-> 500, detail |-> "AI generated no response", text |-> ""]
  ELSE [status |-> 200, detail |-> "", text |-> reply.text]

\* a chat that stamps the document it answered about
ChatGenerate_touching(r) ==
  /\ pc[r] = "chat_generate"
  /\ Runs(r)
  /\ \E reply \in Replies, t \in ClockReadings :
       LET o == chat_outcome(reply)
       IN /\ gen' = Append(gen, [by |-> r, contents |-> arg[r].message,
                                 file_search_store_names |-> <<loc[r].store_name>>])
          /\ out' = [out EXCEPT ![r].reply = <<reply>>, ![r].detail = o.detail,
                                ![r].text = o.text]
          /\ records' = [id \in DOMAIN records |->
                           IF id = arg[r].id THEN [records[id] EXCEPT !.updated_at = t + 1]
                           ELSE records[id]]
          /\ IF o.status = 200 THEN Return(r, 200) ELSE Raise(r, o.status)
  /\ UNCHANGED <<file, loc, effects, cancel, now, blobs, stores, docs, job,
                 nextId, arg, fb, bucket>>

\* a chat whose generation request also names the document of the record
ChatGenerate_filtered(r) ==
  /\ pc[r] = "chat_generate"
  /\ Runs(r)
  /\ \E reply \in Replies :
       LET o == chat_outcome(reply)
       IN /\ gen' = Append(gen, [by |-> r, contents |-> arg[r].message,
                                 file_search_store_names |-> <<loc[r].store_name>>,
                                 metadata_filter |-> out[r].data[1].gemini_document_name])
          /\ out' = [out EXCEPT ![r].reply = <<reply>>, ![r].detail = o.detail,
                                ![r].text = o.text]
          /\ IF o.status = 200 THEN Return(r, 200) ELSE Raise(r, o.status)
  /\ UNCHANGED <<file, loc, effects, cancel, now, blobs, stores, docs, job,
                 records, nextId, arg, fb, bucket>>

\* chat_with_file lines 35-57: generate_content restricted to the store of the document
ChatGenerate(r) ==
  /\ pc[r] = "chat_generate"
  /\ Runs(r)
  /\ \E reply \in Replies :
       LET o == chat_outcome(reply)
       IN /\ gen' = Append(gen, [by |-> r, contents |-> arg[r].message,
                                 file_search_store_names |-> <<loc[r].store_name>>])
          /\ out' = [out EXCEPT ![r].reply = <<reply>>, ![r].detail = o.detail,
                                ![r].text = o.text]
          /\ IF o.status = 200 THEN Return(r, 200) ELSE Raise(r, o.status)
  /\ UNCHANGED <<file, loc, effects, cancel, now, blobs, stores, docs, job,
                 records, nextId, arg, fb, bucket>>

MaxPage == 3

MaxPageSize == 3

\* GET /files?page=..&page_size=..: both are at least 1 (Query(ge=1))
StartList(r, page, page_size) ==
  Arrive(r, [NoArg EXCEPT !.kind = "list", !.page = page, !.page_size = page_size],
         "list_query")

\* order_by("created_at", DESCENDING): document i comes before document j;
\* documents of equal created_at follow each other by document id, in the
\* direction of the query
Before(recs, i, j) ==
  \/ recs[i].created_at > recs[j].created_at
  \/ recs[i].created_at = recs[j].created_at /\ i > j

\* the ids of the documents S of recs in the order of the query
RECURSIVE OrderByCreatedAtDesc(_, _)
OrderByCreatedAtDesc(recs, S) ==
  IF S = {} THEN << >>
  ELSE LET first == CHOOSE i \in S : \A j \in S \ {i} : Before(recs, i, j)
       IN <<first>> \o OrderByCreatedAtDesc(recs, S \ {first})

\* query.offset(offset).limit(limit)
OffsetLimit(seq, offset, limit) ==
  [k \in 1..(IF Len(seq) - offset < 0 THEN 0
             ELSE IF Len(seq) - offset < limit THEN Len(seq) - offset ELSE limit)
     |-> seq[offset + k]]

\* an offset that counts pages from zero
list_offset_zero_based(page, page_size) == page * page_size

\* list_files line 115
list_offset(page, page_size) == (page - 1) * page_size

\* list_files lines 115-138: the FileResponses of one page of the collection recs
ListPage(recs, page, page_size) ==
  LET offset == list_offset(page, page_size)
      ids == OffsetLimit(OrderByCreatedAtDesc(recs, DOMAIN recs), offset, page_size)
  IN [k \in 1..Len(ids) |-> FileResponseOf(ids[k], recs[ids[k]])]

\* a page count that rounds down
total_pages_floor(total_files, page_size) == total_files \div page_size

\* list_files line 142
total_pages(total_files, page_size) == (total_files + page_size - 1) \div page_size

\* list_files lines 115-138: the query and the FileResponses of its documents
ListQuery(r) ==
  /\ pc[r] = "list_query"
  /\ Runs(r)
  /\ out' = [out EXCEPT ![r].files = ListPage(records, arg[r].page, arg[r].page_size),
                        ![r].data = <<records>>]
  /\ Goto(r, "list_count")
  /\ UNCHANGED <<file, loc, effects, cancel, now, blobs, stores, docs, job,
                 records, nextId, arg, gen, fb, bucket>>

\* list_files lines 140-152: the count and the Pagination
ListCount(r) ==
  /\ pc[r] = "list_count"
  /\ Runs(r)
  /\ LET total_files == Cardinality(DOMAIN records)
     IN out' = [out EXCEPT ![r].pagination =
                  [page |-> arg[r].page, page_size |-> arg[r].page_size,
                   total_pages |-> total_pages(total_files, arg[r].page_size),
                   total_files |-> total_files]]
  /\ Return(r, 200)
  /\ UNCHANGED <<file, loc, effects, cancel, now, blobs, stores, docs, job,
                 records, nextId, arg, gen, fb, bucket>>

StoreNext ==
  \/ \E r \in Reqs, id \in FileIds : StartGet(r, id)
  \/ \E r \in Reqs : GetFile(r)
  \/ \E r \in Reqs, id \in FileIds : StartDelete(r, id)
  \/ \E r \in Reqs : DeleteLookup(r)
  \/ \E r \in Reqs : DeleteDoc(r)
  \/ \E r \in Reqs : DeleteBlob(r)
  \/ \E r \in Reqs, id \in FileIds, msg \in Messages : StartChat(r, id, msg)
  \/ \E r \in Reqs : ChatLookup(r)
  \/ \E r \in Reqs : ChatGenerate(r)
  \/ \E r \in Reqs, page \in 1..MaxPage, page_size \in 1..MaxPageSize :
       StartList(r, page, page_size)
  \/ \E r \in Reqs : ListQuery(r)
  \/ \E r \in Reqs : ListCount(r)

StoreSpec == StoreInit /\ [][StoreNext]_vars


(***************************************************************************)
(* Uploads together with get and delete requests for the documents they    *)
(* create.                                                                 *)
(***************************************************************************)
\* the ids the uploads can create, and one that no document gets
UploadIds == 1..(NumReqs + 1)

LifecycleNext ==
  \/ Next
  \/ \E r \in Reqs, id \in UploadIds : StartGet(r, id)
  \/ \E r \in Reqs : GetFile(r)
  \/ \E r \in Reqs, id \in UploadIds : StartDelete(r, id)
  \/ \E r \in Reqs : DeleteLookup(r)
  \/ \E r \in Reqs : DeleteDoc(r)
  \/ \E r \in Reqs : DeleteBlob(r)

LifecycleSpec == Init /\ [][LifecycleNext]_vars

(***************************************************************************)
(* Uploads of a.pdf and deletes against a collection that earlier uploads  *)
(* of a.pdf have filled.  The File Search store of the application exists  *)
(* since those uploads, so get_or_create_store finds it in the listing.    *)
(***************************************************************************)
IntegrityNext ==
  \/ \E r \in Reqs, ct \in ContentTypes : Start(r, F_pdf, ct, 7)
  \/ \E r \in Reqs : Validate(r)
  \/ \E r \in Reqs : UploadToStorage(r)
  \/ \E r \in Reqs : Rewind(r)
  \/ \E r \in Reqs : TempWrite(r)
  \/ \E r \in Reqs : Resolve(r)
  \/ \E r \in Reqs : Index(r)
  \/ \E r \in Reqs : PollCheck(r)
  \/ \E r \in Reqs : PollGet(r)
  \/ \E r \in Reqs : Summarize(r)
  \/ \E r \in Reqs : Persist(r)
  \/ \E r \in Reqs : JobCompletes(r)
  \/ \E r \in Reqs, id \in FileIds : StartDelete(r, id)
  \/ \E r \in Reqs : DeleteLookup(r)
  \/ \E r \in Reqs : DeleteDoc(r)
  \/ \E r \in Reqs : DeleteBlob(r)

IntegritySpec == StoreInit /\ [][IntegrityNext]_vars

(***************************************************************************)
(* Uploads of a.pdf, deletes and chats against a collection that earlier   *)
(* uploads of a.pdf have filled.                                           *)
(***************************************************************************)
IsolationNext ==
  \/ IntegrityNext
  \/ \E r \in Reqs, id \in FileIds, msg \in Messages : StartChat(r, id, msg)
  \/ \E r \in Reqs : ChatLookup(r)
  \/ \E r \in Reqs : ChatGenerate(r)

IsolationSpec == StoreInit /\ [][IsolationNext]_vars

(***************************************************************************)
(* Uploads of a.pdf, deletes and listings against a collection that        *)
(* earlier uploads of a.pdf have filled.                                   *)
(***************************************************************************)
ListingNext ==
  \/ IntegrityNext
  \/ \E r \in Reqs, page \in 1..MaxPage, page_size \in 1..MaxPageSize :
       StartList(r, page, page_size)
  \/ \E r \in Reqs : ListQuery(r)
  \/ \E r \in Reqs : ListCount(r)

ListingSpec == StoreInit /\ [][ListingNext]_vars

(***************************************************************************)
(* FileService._init_storage: threads constructing a FileService           *)
(* (get_file_service is a sync dependency, one construction per request,   *)
(* run in the thread pool).                                                *)
(***************************************************************************)
\* get_file_service lines 15-19, FileService.__init__ line 33: a thread
\* constructs a FileService and enters _init_storage
ConstructService(t) ==
  /\ bucket.tpc[t] = "out"
  /\ bucket.calls[t] < MaxCalls
  /\ bucket' = [bucket EXCEPT !.tpc[t] = "bucket_exists", !.calls[t] = @ + 1,
                              !.failed = @ \ {t}]
  /\ UNCHANGED <<pc, file, loc, status, failedAt, effects, cancel, loop, now,
                 blobs, stores, docs, job, records, nextId, arg, out, gen, fb>>

\* _init_storage lines 242-243: found = bucket_exists(bucket_name)
BucketExists(t) ==
  /\ bucket.tpc[t] = "bucket_exists"
  /\ bucket' = [bucket EXCEPT !.found[t] = bucket.exists,
                              !.tpc[t] = IF bucket.exists THEN "out" ELSE "make_bucket"]
  /\ UNCHANGED <<pc, file, loc, status, failedAt, effects, cancel, loop, now,
                 blobs, stores, docs, job, records, nextId, arg, out, gen, fb>>

\* _init_storage line 244: make_bucket(bucket_name) creates the bucket, or
\* raises S3Error (BucketAlreadyOwnedByYou) when the bucket exists; the
\* exception leaves __init__ and the dependency
MakeBucket(t) ==
  /\ bucket.tpc[t] = "make_bucket"
  /\ bucket' = IF bucket.exists
               THEN [bucket EXCEPT !.tpc[t] = "out", !.failed = @ \cup {t}]
               ELSE [bucket EXCEPT !.tpc[t] = "out", !.exists = TRUE, !.made = @ + 1]
  /\ UNCHANGED <<pc, file, loc, status, failedAt, effects, cancel, loop, now,
                 blobs, stores, docs, job, records, nextId, arg, out, gen, fb>>

StorageNext ==
  \/ \E t \in Threads : ConstructService(t)
  \/ \E t \in Threads : BucketExists(t)
  \/ \E t \in Threads : MakeBucket(t)

StorageSpec == Init /\ [][StorageNext]_vars

(***************************************************************************)
(* Uploads together with get, delete, chat and list requests.              *)
(***************************************************************************)
ServiceNext ==
  \/ Next
  \/ \E r \in Reqs, id \in UploadIds : StartGet(r, id)
  \/ \E r \in Reqs : GetFile(r)
  \/ \E r \in Reqs, id \in UploadIds : StartDelete(r, id)
  \/ \E r \in Reqs : DeleteLookup(r)
  \/ \E r \in Reqs : DeleteDoc(r)
  \/ \E r \in Reqs : DeleteBlob(r)
  \/ \E r \in Reqs, id \in UploadIds, msg \in Messages : StartChat(r, id, msg)
  \/ \E r \in Reqs : ChatLookup(r)
  \/ \E r \in Reqs : ChatGenerate(r)
  \/ \E r \in Reqs, page \in 1..MaxPage, page_size \in 1..MaxPageSize :
       StartList(r, page, page_size)
  \/ \E r \in Reqs : ListQuery(r)
  \/ \E r \in Reqs : ListCount(r)

ServiceSpec == Init /\ [][ServiceNext]_vars

(***************************************************************************)
(* db/session.py: threads calling _get_or_init_app.                        *)
(***************************************************************************)
\* a with statement that enters without waiting for the lock
CanAcquire_unlocked(lock) == TRUE

\* `with _init_lock` (line 21) is entered when no thread holds the lock
CanAcquire(lock) == lock = {}

\* leaving the with block: the lock is released
Released(t) == fb.lock \ {t}

\* a thread calls _get_or_init_app: get_settings (line 19)
CallInit(t) ==
  /\ fb.tpc[t] = "out"
  /\ fb.calls[t] < MaxCalls
  /\ fb' = [fb EXCEPT !.tpc[t] = "with", !.calls[t] = @ + 1, !.got[t] = 0,
                      !.failed = @ \ {t}]
  /\ UNCHANGED <<pc, file, loc, status, failedAt, effects, cancel, loop, now,
                 blobs, stores, docs, job, records, nextId, arg, out, gen, bucket>>

\* line 21: with _init_lock
AcquireLock(t) ==
  /\ fb.tpc[t] = "with"
  /\ CanAcquire(fb.lock)
  /\ fb' = [fb EXCEPT !.tpc[t] = "get_app", !.lock = @ \cup {t}]
  /\ UNCHANGED <<pc, file, loc, status, failedAt, effects, cancel, loop, now,
                 blobs, stores, docs, job, records, nextId, arg, out, gen, bucket>>

\* lines 22-25: firebase_admin.get_app() returns the registered default app
\* or raises ValueError
GetApp(t) ==
  /\ fb.tpc[t] = "get_app"
  /\ fb' = IF fb.app # 0
           THEN [fb EXCEPT !.tpc[t] = "out", !.got[t] = fb.app, !.lock = Released(t)]
           ELSE [fb EXCEPT !.tpc[t] = "init"]
  /\ UNCHANGED <<pc, file, loc, status, failedAt, effects, cancel, loop, now,
                 blobs, stores, docs, job, records, nextId, arg, out, gen, bucket>>

\* lines 27-36: credentials.Certificate and initialize_app; any exception
\* (bad credentials, or a default app that exists already) becomes RuntimeError
InitializeApp(t) ==
  /\ fb.tpc[t] = "init"
  /\ \E ok \in BOOLEAN :
       fb' = IF ok /\ fb.app = 0
             THEN [fb EXCEPT !.tpc[t] = "out", !.app = fb.inits + 1, !.inits = @ + 1,
                             !.got[t] = fb.inits + 1, !.lock = Released(t)]
             ELSE [fb EXCEPT !.tpc[t] = "out", !.failed = @ \cup {t},
                             !.lock = Released(t)]
  /\ UNCHANGED <<pc, file, loc, status, failedAt, effects, cancel, loop, now,
                 blobs, stores, docs, job, records, nextId, arg, out, gen, bucket>>

AppNext ==
  \/ \E t \in Threads : CallInit(t)
  \/ \E t \in Threads : AcquireLock(t)
  \/ \E t \in Threads : GetApp(t)
  \/ \E t \in Threads : InitializeApp(t)

AppSpec == Init /\ [][AppNext]_vars

(***************************************************************************)
(* validate_file on its own: uploads of every kind of filename and of      *)
(* sizes around the maximum arrive and are validated.                      *)
(***************************************************************************)
AllFilenames == {F_empty, F_pdf, F_PDF, F_text, F_exe, F_noext}

AllSizes == {0, 7, MAX_FILE_SIZE - 1, MAX_FILE_SIZE, MAX_FILE_SIZE + 1, MAX_FILE_SIZE + 7}

\* declared content types: none, one the mime_to_ext table maps, two it does not
AllContentTypes == {None, "text/plain", "application/pdf", "application/octet-stream"}

ValidateNext ==
  \/ \E r \in Reqs, fn \in AllFilenames, ct \in AllContentTypes, sz \in AllSizes :
       Start(r, fn, ct, sz)
  \/ \E r \in Reqs : Validate(r)

ValidateSpec == Init /\ [][ValidateNext]_vars


(***************************************************************************)
(* GeminiService.generate_summary_and_keywords on the characters of the    *)
(* reply: text.split, startswith, replace, strip and the slices of lines   *)
(* 125-146.                                                                *)
(***************************************************************************)
SUMMARY_LIMIT == 300

KEYWORD_LIMIT == 6

KEYWORD_MAX_LENGTH == 50

\* str.strip() without argument removes these (of the characters in use)
Whitespace == {" ", "\t", "\r"}

SUMMARY_MARK == <<"S", "U", "M", "M", "A", "R", "Y", ":">>

KEYWORDS_MARK == <<"K", "E", "Y", "W", "O", "R", "D", "S", ":">>

Repeat(c, n) == [i \in 1..n |-> c]

\* s[:n]
Take(s, n) == SubSeq(s, 1, IF Len(s) < n THEN Len(s) ELSE n)

\* s.startswith(p)
StartsWith(s, p) == Len(p) <= Len(s) /\ SubSeq(s, 1, Len(p)) = p

RECURSIVE Split(_, _)
\* s.split(c): the pieces between the occurrences of the character c
Split(s, c) ==
  LET at == {i \in 1..Len(s) : s[i] = c}
  IN IF at = {} THEN <<s>>
     ELSE LET i == CHOOSE i \in at : \A j \in at : i <= j
          IN <<SubSeq(s, 1, i - 1)>> \o Split(SubSeq(s, i + 1, Len(s)), c)

RECURSIVE Remove(_, _)
\* s.replace(p, ""): every occurrence of p is taken out
Remove(s, p) ==
  LET at == {i \in 1..(Len(s) - Len(p) + 1) : SubSeq(s, i, i + Len(p) - 1) = p}
  IN IF at = {} THEN s
     ELSE LET i == CHOOSE i \in at : \A j \in at : i <= j
          IN SubSeq(s, 1, i - 1) \o Remove(SubSeq(s, i + Len(p), Len(s)), p)

\* s.strip(chars): leading and trailing characters of the set are dropped
StripChars(s, chars) ==
  LET keep == {i \in 1..Len(s) : s[i] \notin chars}
  IN IF keep = {} THEN << >>
     ELSE SubSeq(s, CHOOSE i \in keep : \A j \in keep : i <= j,
                    CHOOSE i \in keep : \A j \in keep : j <= i)

\* s.strip()
Strip(s) == StripChars(s, Whitespace)

\* lines 134-138: [k.strip().strip("[]") for k in kw_text.split(",") if k.strip()]
KeywordsOf(kw_text) ==
  LET parts == SelectSeq(Split(kw_text, ","), LAMBDA k : Strip(k) # << >>)
  IN [i \in 1..Len(parts) |-> StripChars(Strip(parts[i]), {"[", "]"})]

RECURSIVE ParseLines(_, _, _)
\* lines 129-138: the loop over the lines; a later SUMMARY: or KEYWORDS:
\* line replaces what an earlier one gave
ParseLines(lines, summary, keywords) ==
  IF lines = << >> THEN [summary |-> summary, keywords |-> keywords]
  ELSE LET line == Head(lines)
       IN IF StartsWith(line, SUMMARY_MARK)
          THEN ParseLines(Tail(lines), Strip(Remove(line, SUMMARY_MARK)), keywords)
          ELSE IF StartsWith(line, KEYWORDS_MARK)
          THEN ParseLines(Tail(lines), summary,
                          KeywordsOf(Strip(Remove(line, KEYWORDS_MARK))))
          ELSE ParseLines(Tail(lines), summary, keywords)

\* lines 115-150 on a reply [raised, text] of generate_content
summary_and_keywords_of(reply) ==
  IF reply.raised
  THEN [summary |-> <<"S", "u", "m", "m", "a", "r", "y", " ", "g", "e", "n", "e", "r", "a", "t", "i", "o", "n", " ", "f", "a", "i", "l", "e", "d">>, keywords |-> << >>]
  ELSE IF reply.text = << >>
  THEN [summary |-> <<"N", "o", " ", "s", "u", "m", "m", "a", "r", "y", " ", "a", "v", "a", "i", "l", "a", "b", "l", "e">>, keywords |-> << >>]
  ELSE LET parsed == ParseLines(Split(reply.text, "\n"), << >>, << >>)
           summary == IF parsed.summary = << >> THEN Take(reply.text, SUMMARY_LIMIT)
                      ELSE parsed.summary
       IN [summary |-> Take(summary, SUMMARY_LIMIT),
           keywords |-> Take(parsed.keywords, KEYWORD_LIMIT)]

\* the replies of the summary call: it raises, it has no text, or its text
\* is one of these
ReplyTexts ==
  { <<"S", "U", "M", "M", "A", "R", "Y", ":", " ", "o", "k", "\n", "K", "E", "Y", "W", "O", "R", "D", "S", ":", " ", "a", ",", " ", "b">>,
    <<"S", "U", "M", "M", "A", "R", "Y", ":", " ", "o", "k", "\n", "K", "E", "Y", "W", "O", "R", "D", "S", ":", " ", "[", "]">>,
    <<"S", "U", "M", "M", "A", "R", "Y", ":", " ", "o", "k", "\n", "K", "E", "Y", "W", "O", "R", "D", "S", ":", " ", "[", "a", ",", " ", "b", "]">>,
    <<" ", "n", "o", "\t", "m", "a", "r", "k", "s", " ">>,
    <<"K", "E", "Y", "W", "O", "R", "D", "S", ":", " ", "a", ",", "b", ",", "c", ",", "d", ",", "e", ",", "f", ",", "g", "\n", "S", "U", "M", "M", "A", "R", "Y", ":", " ", "o", "k">>,
    <<"S", "U", "M", "M", "A", "R", "Y", ":", " ", "o", "k", "\n", "K", "E", "Y", "W", "O", "R", "D", "S", ":", " ", "[", " ", "]">>,
    <<"S", "U", "M", "M", "A", "R", "Y", ":", "\n", "K", "E", "Y", "W", "O", "R", "D", "S", ":", " ", "a", ",", ",", " ", "b">>,
    <<"S", "U", "M", "M", "A", "R", "Y", ":", " ">> \o Repeat("x", SUMMARY_LIMIT + 5),
    <<"S", "U", "M", "M", "A", "R", "Y", ":", " ">> \o Repeat("x", SUMMARY_LIMIT - 1) \o <<" ", "y">>,
    <<"S", "U", "M", "M", "A", "R", "Y", ":", " ", "o", "k", "\n", "K", "E", "Y", "W", "O", "R", "D", "S", ":", " ">> \o Repeat("k", KEYWORD_MAX_LENGTH + 1) }

TextReplies ==
  {[raised |-> TRUE, text |-> << >>], [raised |-> FALSE, text |-> << >>]}
    \cup {[raised |-> FALSE, text |-> t] : t \in ReplyTexts}

\* upload_file lines 64-80 with the reply of the summary call spelled out
SummarizeText(r) ==
  /\ pc[r] = "summarize"
  /\ Runs(r)
  /\ \E reply \in TextReplies :
       LET g == summary_and_keywords_of(reply)
       IN /\ loc' = [loc EXCEPT ![r].summary = g.summary,
                                ![r].keywords = g.keywords,
                                ![r].reply = IF reply.raised THEN "raise" ELSE "text",
                                ![r].temp = Unlinked(@)]
          /\ effects' = [effects EXCEPT ![r] = Append(@, "summarized")]
          /\ Goto(r, Succ("summarize"))
  /\ UNCHANGED <<file, cancel, now, blobs, stores, docs, job, records, nextId, arg, out, gen, fb, bucket>>

ParseNext ==
  \/ Start(1, F_pdf, "application/pdf", 7)
  \/ \E r \in Reqs : Validate(r)
  \/ \E r \in Reqs : UploadToStorage(r)
  \/ \E r \in Reqs : Rewind(r)
  \/ \E r \in Reqs : TempWrite(r)
  \/ \E r \in Reqs : Resolve(r)
  \/ \E r \in Reqs : Create(r)
  \/ \E r \in Reqs : Index(r)
  \/ \E r \in Reqs : PollCheck(r)
  \/ \E r \in Reqs : PollGet(r)
  \/ \E r \in Reqs : JobCompletes(r)
  \/ \E r \in Reqs : SummarizeText(r)
  \/ \E r \in Reqs : Persist(r)

ParseSpec == Init /\ [][ParseNext]_vars

(***************************************************************************)
(* One ingestion at a time, for uploads of every kind of filename and of   *)
(* sizes from empty to beyond the maximum.                                 *)
(***************************************************************************)
IngestNext ==
  \/ \E fn \in AllFilenames, ct \in ContentTypes, sz \in AllSizes : Start(1, fn, ct, sz)
  \/ \E r \in Reqs : ReqStep(r)
  \/ \E r \in Reqs : JobCompletes(r)

IngestSpec == Init /\ [][IngestNext]_vars

(***************************************************************************)
(* models/file.py: the type validator of the metadata model, and           *)
(* ingestions of files of several types, one at a time.                    *)
(***************************************************************************)
\* ALLOWED_FILE_TYPES of models/file.py (line 8)
MODELS_ALLOWED_FILE_TYPES ==
  { <<"p","d","f">>, <<"d","o","c","x">>, <<"d","o","c">>, <<"t","x","t">>,
    <<"m","d">>, <<"c","s","v">>, <<"x","l","s","x">>, <<"x","l","s">> }

\* FileMetadataCreate.validate_file_type (lines 56-67)
validate_file_type(v) ==
  LET v_lower == Strip(Lower(v))
  IN [raised |-> v_lower \notin MODELS_ALLOWED_FILE_TYPES, value |-> v_lower]

F_pptx == <<"s",".","p","p","t","x">>

F_csv == <<"t",".","c","s","v">>

\* filenames of several types, allowed and not
TypedFilenames == {F_pdf, F_PDF, F_text, F_csv, F_pptx, F_exe}

TypesNext ==
  \/ \E fn \in TypedFilenames, ct \in ContentTypes : Start(1, fn, ct, 7)
  \/ \E r \in Reqs : ReqStep(r)
  \/ \E r \in Reqs : JobCompletes(r)

TypesSpec == Init /\ [][TypesNext]_vars

(***************************************************************************)
(* Properties.                                                             *)
(***************************************************************************)
Range(f) == {f[i] : i \in DOMAIN f}

IsPrefix(a, b) == Len(a) <= Len(b) /\ a = SubSeq(b, 1, Len(a))

\* the steps of one ingestion in the order of section 4.5
PipelineSteps ==
  <<"validated", "blob_put", "index_submit", "import_done", "summarized", "metadata_write">>

\* an upload the validation policy rejects
Rejected(f) ==
  \/ f.filename = << >>
  \/ f.size > MAX_FILE_SIZE
  \/ ResolveType(f.filename) \notin ALLOWED_FILE_TYPES

\* C1: an upload that validation rejects (empty filename, byte length over
\* the maximum, resolved type not allowed) has no external side effect: no
\* blob is put, no file is submitted to the index store, no record is created.
C1_NoSideEffectOnRejection ==
  \A r \in Reqs :
    (pc[r] # "idle" /\ Rejected(file[r])) =>
      /\ effects[r] = << >>
      /\ \A q \in DOMAIN blobs : blobs[q] # r
      /\ \A d \in docs : d.by # r
      /\ job[r] = "none"
      /\ loc[r].response = NoResponse
      /\ \A id \in DOMAIN records : records[id].name # file[r].filename
                                      \/ records[id].size_bytes # file[r].size

\* a too large upload and an upload of a disallowed type were both rejected
C1_Witness ==
  \E r, q \in Reqs :
    /\ pc[r] = "failed" /\ status[r] = 413 /\ file[r].size > MAX_FILE_SIZE
    /\ pc[q] = "failed" /\ status[q] = 400 /\ file[q].filename = F_exe

\* C2: every record visible to get and list is complete: it carries all the
\* creation fields, and it was written by the final step of an ingestion
\* whose blob upload, indexing and summarization had all finished.
C2_VisibleRecordsComplete ==
  \A id \in DOMAIN records :
    /\ DOMAIN records[id] = MetadataFields
    /\ \E r \in Reqs :
         /\ loc[r].response.id = id
         /\ pc[r] = "done"
         /\ effects[r] = PipelineSteps

\* a record is visible while another ingestion has written its blob only
C2_Witness ==
  /\ DOMAIN records # {}
  /\ \E r \in Reqs : pc[r] = "temp_read" /\ effects[r] = <<"validated", "blob_put">>

PhaseRank(p) ==
  CASE Phase(p) = "Validating" -> 1
    [] Phase(p) = "BlobUploading" -> 2
    [] Phase(p) = "Indexing" -> 3
    [] Phase(p) = "Summarizing" -> 4
    [] Phase(p) = "PersistingMetadata" -> 5
    [] Phase(p) = "Done" -> 6
    [] OTHER -> 0

\* C3: within one ingestion the steps complete in the order Validating,
\* BlobUploading, Indexing, Summarizing, PersistingMetadata, Done: the
\* completed steps are always a prefix of that order, each state is entered
\* with exactly the earlier steps completed, and no state is entered again
\* after a later one.
C3_StrictOrder ==
  /\ [](\A r \in Reqs :
          /\ IsPrefix(effects[r], PipelineSteps)
          /\ Phase(pc[r]) = "BlobUploading" => Len(effects[r]) = 1
          /\ Phase(pc[r]) = "Indexing" => Len(effects[r]) \in {2, 3}
          /\ Phase(pc[r]) = "Summarizing" => Len(effects[r]) = 4
          /\ Phase(pc[r]) = "PersistingMetadata" => Len(effects[r]) = 5
          /\ Phase(pc[r]) = "Done" => Len(effects[r]) = 6)
  /\ [][\A r \in Reqs :
          pc'[r] \in InFlightPcs \cup {"done"} => PhaseRank(pc'[r]) >= PhaseRank(pc[r])]_vars

\* an ingestion went through all the steps
C3_Witness == \E r \in Reqs : pc[r] = "done" /\ effects[r] = PipelineSteps

\* C4: after an ingestion that failed in Indexing (the index upload or the
\* import job raised), its blob is absent from object storage.
C4_BlobCompensatedAfterIndexFailure ==
  \A r \in Reqs :
    (pc[r] = "failed" /\ failedAt[r] \in {"index", "poll_get"}) =>
      loc[r].storage_path \notin DOMAIN blobs

\* C5: after an ingestion that failed in PersistingMetadata, neither its blob
\* nor its index entry is left behind.
C5_CompensatedAfterPersistFailure ==
  \A r \in Reqs :
    (pc[r] = "failed" /\ failedAt[r] = "persist") =>
      /\ loc[r].storage_path \notin DOMAIN blobs
      /\ \A d \in docs : d.by # r

\* C6: a failure of the Summarizing step never aborts an ingestion: no
\* ingestion ends in Summarizing, every ingestion whose import finished gets
\* to the metadata write, and it succeeds iff that write succeeds.
C6_SummaryNeverAborts ==
  \A r \in Reqs :
    /\ failedAt[r] # "summarize"
    /\ (pc[r] \in FinalPcs /\ "import_done" \in Range(effects[r])) =>
         /\ "summarized" \in Range(effects[r])
         /\ status[r] = 201 \/ failedAt[r] = "persist"
         /\ status[r] = 201 <=> "metadata_write" \in Range(effects[r])

\* an ingestion whose summary generation call raised has succeeded
C6_Witness ==
  \E r \in Reqs :
    /\ pc[r] = "done" /\ status[r] = 201
    /\ loc[r].summary = "Summary generation failed"

\* C7: store resolution is resolve-once over the interleavings of concurrent
\* ingestion requests: at most one store carries the application's display
\* name, all resolutions return the same identifier, and all records carry it.
C7_ResolveOnce ==
  /\ Cardinality({i \in 1..Len(stores) : stores[i].display_name = STORE_LABEL}) <= 1
  /\ \A r, q \in Reqs :
       (loc[r].store_name # NoStore /\ loc[q].store_name # NoStore) =>
          loc[r].store_name = loc[q].store_name
  /\ \A id1, id2 \in DOMAIN records :
       records[id1].gemini_file_search_store_name = records[id2].gemini_file_search_store_name

\* two overlapping ingestions (r wrote its blob before q did, q finished
\* before r resolved) obtained the store that one of them created
C7_Witness ==
  \E r, q \in Reqs :
    /\ r # q
    /\ pc[q] = "done" /\ pc[r] = "index"
    /\ loc[r].storage_path.ts < loc[q].storage_path.ts
    /\ Len(stores) = 1
    /\ loc[r].store_name = loc[q].store_name

\* C8: while an ingestion waits in the poll loop for an unfinished import
\* job, every other pending request can take a step.
C8_OthersProgressDuringPoll ==
  \A r, q \in Reqs :
    (r # q /\ pc[r] \in PollPcs /\ job[r] = "running" /\ pc[q] \in YieldPcs) =>
      ENABLED ReqStep(q)

\* C9: the import wait always terminates, also when the remote job never
\* reports completion.
C9_ImportWaitTerminates ==
  \A r \in Reqs : (pc[r] \in PollPcs) ~> (pc[r] \notin PollPcs)

\* C10: an ingestion whose cancellation was requested while it was polling
\* the import job commits no metadata record.
C10_NoRecordAfterCancelInPoll ==
  \A r \in Reqs :
    cancel[r] = "in_poll" =>
      /\ "metadata_write" \notin Range(effects[r])
      /\ status[r] # 201

\* C11: a delete removes the metadata record first and only then attempts to
\* delete the blob: in no reachable state has a delete request attempted or
\* carried out the removal of the blob while the record it deletes is still
\* in the collection.
C11_RecordRemovedBeforeBlob ==
  \A r \in Reqs :
    arg[r].kind = "delete" /\ out[r].blob # "untouched" =>
      arg[r].id \notin DOMAIN records

\* a delete has removed the record and then the blob
C11_Witness ==
  \E r \in Reqs :
    /\ arg[r].kind = "delete" /\ pc[r] = "done" /\ out[r].blob = "removed"
    /\ out[r].data[1].storage_path \notin DOMAIN blobs
    /\ arg[r].id \notin DOMAIN records

\* C12: a failure of the blob deletion does not change the outcome of the
\* delete: the delete still reports success (204), the record is gone, and
\* every get of that id that runs after the delete returned answers 404.
C12_BlobFailureKeepsOutcome ==
  \A r \in Reqs :
    arg[r].kind = "delete" /\ out[r].blob = "remove_failed" =>
      /\ pc[r] = "done" /\ status[r] = 204
      /\ arg[r].id \notin DOMAIN records
      /\ \A q \in Reqs :
           arg[q].kind = "get" /\ arg[q].id = arg[r].id /\ r \in out[q].after =>
             pc[q] = "failed" /\ status[q] = 404

\* the blob deletion of a delete failed and a later get of the id has answered
C12_Witness ==
  \E r, q \in Reqs :
    /\ arg[r].kind = "delete" /\ out[r].blob = "remove_failed" /\ pc[r] = "done"
    /\ out[r].data[1].storage_path \in DOMAIN blobs
    /\ arg[q].kind = "get" /\ arg[q].id = arg[r].id /\ r \in out[q].after
    /\ status[q] = 404

\* the generate_content calls a request has issued
CallsBy(r) == {i \in 1..Len(gen) : gen[i].by = r}

\* the chat requests whose metadata lookup has run
ChatLooked == {r \in Reqs : arg[r].kind = "chat" /\ pc[r] \notin {"idle", "chat_lookup"}}

\* C13: a chat request for an id that has no record fails with NotFound (404)
\* and issues no generation call.
C13_ChatMissingRecord ==
  \A r \in ChatLooked :
    out[r].data = << >> =>
      /\ pc[r] = "failed" /\ status[r] = 404 /\ out[r].detail = "File not found"
      /\ CallsBy(r) = {}

\* a chat request named an id without a record and has been answered
C13_Witness ==
  \E r \in ChatLooked :
    /\ arg[r].id \notin DOMAIN records /\ out[r].data = << >>
    /\ status[r] = 404 /\ CallsBy(r) = {}

\* C14: a chat request for a record whose store name is absent or empty
\* fails with NotIndexed and issues no generation call; every generation
\* call comes from a request whose record exists and carries a store name,
\* and is restricted to exactly that store.
C14_ChatNeedsStore ==
  /\ \A r \in ChatLooked :
       out[r].data # << >> /\ out[r].data[1].gemini_file_search_store_name = NoStore =>
         /\ pc[r] = "failed" /\ status[r] = 500
         /\ out[r].detail = "File is not yet linked to a Gemini File Search store"
         /\ CallsBy(r) = {}
  /\ \A i \in 1..Len(gen) :
       /\ arg[gen[i].by].kind = "chat"
       /\ out[gen[i].by].data # << >>
       /\ out[gen[i].by].data[1].gemini_file_search_store_name # NoStore
       /\ gen[i].file_search_store_names =
            <<out[gen[i].by].data[1].gemini_file_search_store_name>>

\* one chat request met a record without store name, another issued a call
C14_Witness ==
  \E r, q \in ChatLooked :
    /\ out[r].data # << >> /\ out[r].data[1].gemini_file_search_store_name = NoStore
    /\ pc[r] = "failed" /\ CallsBy(r) = {}
    /\ CallsBy(q) # {}

\* C15: chat never answers without model text: when the generation call
\* raises the request fails with the chat failure, when the reply has no
\* text it fails with EmptyResponse, and a ChatResponse is returned only for
\* a reply with non-empty text and carries exactly that text.
C15_ChatAnswerIsModelText ==
  \A r \in Reqs :
    arg[r].kind = "chat" =>
      /\ out[r].reply # << >> /\ out[r].reply[1].raised =>
           pc[r] = "failed" /\ status[r] = 500 /\ out[r].detail = "Chat failed"
      /\ out[r].reply # << >> /\ ~out[r].reply[1].raised /\ out[r].reply[1].text = "" =>
           pc[r] = "failed" /\ status[r] = 500 /\ out[r].detail = "AI generated no response"
      /\ status[r] = 200 =>
           /\ out[r].reply # << >> /\ ~out[r].reply[1].raised
           /\ out[r].reply[1].text # ""
           /\ out[r].text = out[r].reply[1].text

\* one chat request was answered with the text of its reply, another got a
\* reply without text
C15_Witness ==
  \E r, q \in Reqs :
    /\ arg[r].kind = "chat" /\ status[r] = 200 /\ out[r].text = "answer two"
    /\ arg[q].kind = "chat" /\ out[q].reply = <<[raised |-> FALSE, text |-> ""]>>
    /\ pc[q] = "failed"

\* validate_file has run for the upload of request r
Validated(r) ==
  /\ pc[r] \notin {"idle", "validate"}
  /\ ~(pc[r] = "cancelled" /\ failedAt[r] = "validate")

C17_SizeIsByteLength ==
  \A r \in Reqs :
    pc[r] = "done" /\ arg[r].kind = "none" =>
      /\ loc[r].response.size_bytes = file[r].size
      /\ loc[r].response.id \in DOMAIN records =>
           records[loc[r].response.id].size_bytes = file[r].size

\* an upload of 7 bytes was persisted and answered
C17_Witness ==
  \E r \in Reqs :
    /\ pc[r] = "done" /\ file[r].size = 7
    /\ loc[r].response.id \in DOMAIN records
    /\ records[loc[r].response.id].size_bytes = 7
    /\ loc[r].response.size_bytes = 7

\* C18 as stated: every upload whose byte length exceeds the maximum fails
\* with PayloadTooLarge (413), whatever its filename and type are.
C18_OversizeAlways413 ==
  \A r \in Reqs :
    Validated(r) /\ file[r].size > MAX_FILE_SIZE =>
      pc[r] = "failed" /\ status[r] = 413

\* C18 amended: every upload with a non-empty filename whose byte length
\* exceeds the maximum fails with 413, whatever its type is; an upload whose
\* byte length equals the maximum is not rejected for its size, and is
\* accepted when its filename and type are valid.
C18_OversizeNamed413 ==
  \A r \in Reqs :
    Validated(r) =>
      /\ file[r].size > MAX_FILE_SIZE /\ file[r].filename # << >> =>
           pc[r] = "failed" /\ status[r] = 413
      /\ file[r].size = MAX_FILE_SIZE =>
           /\ ~(pc[r] = "failed" /\ status[r] = 413)
           /\ ~Rejected(file[r]) => pc[r] = "blob" /\ loc[r].file_size = MAX_FILE_SIZE

\* an oversize upload of a disallowed type got 413 and an upload of exactly
\* the maximum size was accepted
C18_Witness ==
  \E r, q \in Reqs :
    /\ file[r].filename = F_exe /\ file[r].size > MAX_FILE_SIZE
    /\ pc[r] = "failed" /\ status[r] = 413
    /\ file[q].size = MAX_FILE_SIZE /\ pc[q] = "blob"

\* the totals and page sizes at which the page count is evaluated directly
MaxTotal == 25

DefaultPageSize == 12

\* n is the least number of pages of the given size that hold total files
IsCeiling(n, total, size) == n * size >= total /\ (n - 1) * size < total

\* the list requests that have returned
Listed == {r \in Reqs : arg[r].kind = "list" /\ pc[r] = "done"}

\* C19: for every total_files >= 0 and page_size >= 1 the listing reports
\* total_pages = ceil(total_files / page_size): 0 pages for 0 files, 3 pages
\* for 25 files at page size 12.
C19_TotalPagesIsCeiling ==
  /\ \A r \in Listed :
       LET p == out[r].pagination
       IN /\ p.total_files = Cardinality(DOMAIN out[r].data[1])
          /\ p.page_size = arg[r].page_size
          /\ IsCeiling(p.total_pages, p.total_files, p.page_size)
          /\ p.total_files = 0 => p.total_pages = 0
  /\ \A total \in 0..MaxTotal, size \in 1..DefaultPageSize :
       IsCeiling(total_pages(total, size), total, size)
  /\ total_pages(0, DefaultPageSize) = 0
  /\ total_pages(MaxTotal, DefaultPageSize) = 3

\* a listing of three files at page size two reported two pages, and one
\* at page size three reported a single page
C19_Witness ==
  \E r, q \in Listed :
    /\ out[r].pagination.total_files = 3 /\ out[r].pagination.page_size = 2
    /\ out[r].pagination.total_pages = 2
    /\ out[q].pagination.total_files = 3 /\ out[q].pagination.page_size = 3
    /\ out[q].pagination.total_pages = 1

\* the documents of recs created later than, and not earlier than, document e
Newer(recs, e) == {j \in DOMAIN recs : recs[j].created_at > recs[e].created_at}

NotOlder(recs, e) == {j \in DOMAIN recs : recs[j].created_at >= recs[e].created_at}

\* the number of records page number page of the given size holds among n
PageLength(n, page, size) ==
  LET rest == n - (page - 1) * size
  IN IF rest < 0 THEN 0 ELSE IF rest < size THEN rest ELSE size

RECURSIVE AllPages(_, _, _)
\* the pages 1..n of the collection recs, one after the other
AllPages(recs, n, size) ==
  IF n = 0 THEN << >> ELSE AllPages(recs, n - 1, size) \o ListPage(recs, n, size)

\* C20: a listing of page `page` of a collection of N records that nobody
\* writes meanwhile returns exactly the records at the positions
\* (page-1)*page_size .. (page-1)*page_size+page_size-1 of the order by
\* falling creation time, min(page_size, max(0, N-(page-1)*page_size)) of
\* them; a page beyond the last returns no records and no error; the pages
\* 1..total_pages together hold every record exactly once.
C20_PageIsSliceOfCreationOrder ==
  \A r \in Listed :
    LET recs == out[r].data[1]
        files == out[r].files
        size == arg[r].page_size
        offset == (arg[r].page - 1) * size
        all == AllPages(recs, total_pages(Cardinality(DOMAIN recs), size), size)
    IN /\ status[r] = 200
       /\ Len(files) = PageLength(Cardinality(DOMAIN recs), arg[r].page, size)
       /\ \A k \in 1..Len(files) :
            /\ files[k].id \in DOMAIN recs
            /\ files[k] = FileResponseOf(files[k].id, recs[files[k].id])
            /\ Cardinality(Newer(recs, files[k].id)) < offset + k
            /\ offset + k <= Cardinality(NotOlder(recs, files[k].id))
            /\ \A m \in 1..Len(files) : m # k => files[m].id # files[k].id
       /\ arg[r].page > out[r].pagination.total_pages => files = << >>
       /\ Len(all) = Cardinality(DOMAIN recs)
       /\ {all[k].id : k \in 1..Len(all)} = DOMAIN recs

\* the second page of size two of three records holds the oldest record,
\* and a page beyond the last came back empty
C20_Witness ==
  \E r, q \in Listed :
    /\ Cardinality(DOMAIN out[r].data[1]) = 3
    /\ arg[r].page = 2 /\ arg[r].page_size = 2 /\ Len(out[r].files) = 1
    /\ Newer(out[r].data[1], out[r].files[1].id) # {}
    /\ arg[q].page > out[q].pagination.total_pages /\ out[q].files = << >>
    /\ out[q].data[1] # << >>

\* the upload requests that have returned a FileResponse
Ingested == {r \in Reqs : arg[r].kind = "none" /\ pc[r] = "done"}

\* C21: round trip: a get of the id an ingestion returned, run after the
\* ingestion and with no delete of that id in between, succeeds and yields
\* id, name, type, size_bytes, summary, keywords, created_at and updated_at
\* equal to those of the record upload_file returned.
C21_GetReturnsWhatUploadReturned ==
  \A r \in Ingested : \A q \in Reqs :
    /\ arg[q].kind = "get" /\ arg[q].id = loc[r].response.id
    /\ r \in out[q].after
    /\ loc[r].response.id \in DOMAIN records
    => /\ pc[q] = "done" /\ status[q] = 200
       /\ out[q].file = loc[r].response

\* a get has returned the record of an ingestion that had finished before
C21_Witness ==
  \E r \in Ingested : \E q \in Reqs :
    /\ arg[q].kind = "get" /\ arg[q].id = loc[r].response.id
    /\ r \in out[q].after /\ pc[q] = "done"
    /\ out[q].file.size_bytes = 7 /\ out[q].file.summary = "parsed summary"

\* C22: every read of the uploaded stream by a pipeline step starts at
\* position 0: validation leaves the stream rewound, on success and on a
\* size or type rejection, and the stream is rewound between the read of
\* the blob upload and the read of the index upload, so the bytes put to
\* object storage and the bytes written for the index service are both the
\* complete content.
C22_ReadsStartAtZero ==
  \A r \in Reqs :
    /\ pc[r] \in {"blob", "temp_read"} => file[r].pos = 0
    /\ pc[r] = "failed" /\ failedAt[r] = "validate" => file[r].pos = 0
    /\ "blob_put" \in Range(effects[r]) => loc[r].put_length = file[r].size
    /\ loc[r].temp \in {"named", "unlinked"} => loc[r].temp_length = file[r].size

\* one upload read its stream three times in full, and a rejected upload
\* of 7 bytes of a refused type was left rewound after its read
C22_Witness ==
  \E r, q \in Reqs :
    /\ file[r].reads = 3 /\ file[r].size = 7
    /\ loc[r].put_length = 7 /\ loc[r].temp_length = 7
    /\ pc[q] = "failed" /\ failedAt[q] = "validate" /\ file[q].reads = 1
    /\ file[q].pos = 0

\* C23: soft success of indexing: when the import job completes without a
\* document name, upload_and_index_file returns the store name with an
\* absent document name instead of failing, and the ingestion goes on: the
\* record it persists has the store name set and the document name absent.
C23_SoftSuccessWithoutDocument ==
  \A r \in Reqs :
    job[r] = "done_nodoc" =>
      /\ failedAt[r] # "poll_check"
      /\ "import_done" \in Range(effects[r]) =>
           loc[r].store_name # NoStore /\ loc[r].document_name = NoDoc
      /\ pc[r] = "done" =>
           /\ loc[r].response.id \in DOMAIN records
           /\ records[loc[r].response.id].gemini_file_search_store_name = loc[r].store_name
           /\ records[loc[r].response.id].gemini_file_search_store_name # NoStore
           /\ records[loc[r].response.id].gemini_document_name = NoDoc

\* an ingestion whose import finished without a document name was persisted
C23_Witness ==
  \E r \in Reqs :
    /\ job[r] = "done_nodoc" /\ pc[r] = "done" /\ status[r] = 201
    /\ records[loc[r].response.id].gemini_document_name = NoDoc
    /\ records[loc[r].response.id].gemini_file_search_store_name # NoStore

\* C24: when the blob write fails in BlobUploading the ingestion aborts with
\* a storage error (500) and nothing else has been done: no blob of the
\* request exists, no file was submitted to the index store and no metadata
\* record was created.
C24_BlobFailureLeavesNothing ==
  \A r \in Reqs :
    pc[r] = "failed" /\ failedAt[r] = "blob" =>
      /\ status[r] = 500
      /\ effects[r] = <<"validated">>
      /\ \A q \in DOMAIN blobs : blobs[q] # r
      /\ \A d \in docs : d.by # r
      /\ job[r] = "none"
      /\ loc[r].response = NoResponse
      /\ Cardinality(DOMAIN records)
           = Cardinality({q \in Reqs : "metadata_write" \in Range(effects[q])})

\* the blob write of one upload failed while another upload was persisted
C24_Witness ==
  \E r, q \in Reqs :
    /\ pc[r] = "failed" /\ failedAt[r] = "blob" /\ status[r] = 500
    /\ pc[q] = "done" /\ DOMAIN records = {loc[q].response.id}

\* C25: blob locations never collide: any two ingestion requests, also
\* concurrent ones for the same scope and filename within the same second,
\* obtain different blob paths, so no ingestion overwrites the blob of
\* another and no two metadata records share a storage path.
C25_BlobPathsDistinct ==
  /\ \A r, q \in Reqs :
       r # q /\ loc[r].storage_path # NoPath /\ loc[q].storage_path # NoPath =>
         loc[r].storage_path # loc[q].storage_path
  /\ \A r \in Reqs :
       "blob_put" \in Range(effects[r]) =>
         loc[r].storage_path \in DOMAIN blobs /\ blobs[loc[r].storage_path] = r
  /\ \A id1, id2 \in DOMAIN records :
       id1 # id2 => records[id1].storage_path # records[id2].storage_path

\* the threads inside the with block of _get_or_init_app
InWith == {t \in Threads : fb.tpc[t] \in {"get_app", "init"}}

\* C26: the initialisation of the Firebase app is thread-safe: over every
\* interleaving of threads calling _get_or_init_app the check for an
\* existing app and the initialisation run under mutual exclusion, the app
\* is initialised at most once, and all callers obtain the same instance.
C26_AppInitThreadSafe ==
  /\ Cardinality(InWith) <= 1
  /\ InWith \subseteq fb.lock
  /\ fb.inits <= 1
  /\ \A t \in Threads : fb.got[t] # 0 => fb.got[t] = fb.app
  /\ \A t, u \in Threads : fb.got[t] # 0 /\ fb.got[u] # 0 => fb.got[t] = fb.got[u]
  /\ \A t \in Threads : fb.tpc[t] = "init" => fb.app = 0

\* three threads have obtained the app that one of them initialised after
\* an earlier attempt had failed
C26_Witness ==
  /\ \A t \in Threads : fb.got[t] = 1 /\ fb.tpc[t] = "out"
  /\ \E t \in Threads : fb.calls[t] = 2
  /\ fb.inits = 1

\* C27: when summarization fails during an ingestion, the persisted record
\* has an absent (null) summary and an empty keyword list.
C27_FailedSummaryIsAbsent ==
  \A r \in Reqs :
    pc[r] = "done" /\ loc[r].reply = "raise" /\ loc[r].response.id \in DOMAIN records =>
      /\ records[loc[r].response.id].summary = None
      /\ records[loc[r].response.id].keywords = << >>

\* C28: in every reachable state every persisted record has a size in bytes
\* that is greater than 0 and at most the 100 MiB maximum; in particular an
\* upload of zero bytes never produces a record.
C28_RecordSizePositive ==
  \A id \in DOMAIN records :
    records[id].size_bytes > 0 /\ records[id].size_bytes <= MAX_FILE_SIZE

\* s has no leading and no trailing whitespace
Trimmed(s) == s = << >> \/ (s[1] \notin Whitespace /\ s[Len(s)] \notin Whitespace)

\* C29: in every reachable state the derived content of every persisted
\* record is normalised: the summary is trimmed, absent or non-empty, and
\* within its length bound; the keyword list has at most 6 entries, each
\* trimmed, non-empty and at most 50 characters (a model answer
\* "KEYWORDS: []" yields an empty keyword list).  No summary of these
\* ingestions is absent, so "absent or non-empty" reads non-empty.
C29_DerivedContentNormalised ==
  \A id \in DOMAIN records :
    LET summary == records[id].summary
        keywords == records[id].keywords
    IN /\ Trimmed(summary)
       /\ summary # << >>
       /\ Len(summary) <= SUMMARY_LIMIT
       /\ Len(keywords) <= KEYWORD_LIMIT
       /\ \A i \in 1..Len(keywords) :
            /\ Trimmed(keywords[i])
            /\ keywords[i] # << >>
            /\ Len(keywords[i]) <= KEYWORD_MAX_LENGTH

\* the three-step rule on a filename and the content type the upload declares
DeclaredType(f) ==
  LET file_extension == Lower(LastPart(f.filename))
  IN IF file_extension \in ALLOWED_FILE_TYPES THEN file_extension
     ELSE IF MimeToExt(f.content_type) # NoType THEN MimeToExt(f.content_type)
     ELSE file_extension

\* C30: type resolution follows the three-step rule for every (filename,
\* declared content type) pair: the lower-cased extension if it is allowed,
\* otherwise the extension the fixed table assigns to the declared content
\* type, otherwise the raw extension; so a file whose extension is not
\* allowed but whose declared content type is in the table is accepted with
\* the mapped type.  Stated for named uploads within the size limit.
C30_TypeFromDeclaredContentType ==
  \A r \in Reqs :
    (Validated(r) /\ file[r].filename # << >> /\ file[r].size <= MAX_FILE_SIZE) =>
      IF DeclaredType(file[r]) \in ALLOWED_FILE_TYPES
      THEN pc[r] = "blob" /\ loc[r].file_type = DeclaredType(file[r])
      ELSE pc[r] = "failed" /\ status[r] = 400

\* C31: one ingestion reads the uploaded byte stream at most twice: once in
\* validation to determine size and type, and once to obtain the bytes that
\* go to the blob store and the index service.
C31_StreamReadAtMostTwice ==
  \A r \in Reqs : file[r].reads <= 2

\* C32: once a record is committed, none of list, get, chat or another
\* upload changes any of its fields: in every step a record that stays in
\* the collection keeps all its fields, its store identifier included; the
\* only change allowed is the remote-document identifier going from absent
\* to present.
C32_CommittedRecordsImmutable ==
  [][\A id \in DOMAIN records :
       id \in DOMAIN records' =>
         /\ records'[id] = [records[id] EXCEPT !.gemini_document_name =
                                                 records'[id].gemini_document_name]
         /\ records'[id].gemini_document_name # records[id].gemini_document_name =>
              records[id].gemini_document_name = NoDoc]_vars

\* an upload committed its record and a chat about that record was answered
C32_Witness ==
  \E r, q \in Reqs :
    /\ pc[r] = "done" /\ arg[r].kind = "none" /\ loc[r].response.id \in DOMAIN records
    /\ pc[q] = "done" /\ arg[q].kind = "chat" /\ arg[q].id = loc[r].response.id
    /\ out[q].text # ""

\* C33: delete(id) for an identifier with no metadata record fails with
\* NotFound (HTTP 404) and leaves the metadata store and object storage
\* unchanged: the step that looks the identifier up fails the request with
\* 404 and changes neither store, and the failed request has issued no
\* metadata delete and no blob delete.
C33_DeleteMissingIsNotFound ==
  [][\A r \in Reqs :
       /\ (pc[r] = "delete_lookup" /\ pc'[r] # "delete_lookup"
             /\ arg[r].id \notin DOMAIN records) =>
            /\ pc'[r] = "failed" /\ status'[r] = 404
            /\ out'[r].detail = "File not found"
            /\ out'[r].data = << >> /\ out'[r].blob = "untouched"
            /\ records' = records /\ blobs' = blobs
       /\ (arg[r].kind = "delete" /\ pc[r] = "failed" /\ status[r] = 404) =>
            pc'[r] = "failed" /\ out'[r] = out[r]]_vars

\* a delete of an unknown identifier failed while documents and blobs exist
C33_Witness ==
  \E r \in Reqs :
    /\ arg[r].kind = "delete" /\ pc[r] = "failed" /\ status[r] = 404
    /\ arg[r].id \notin DOMAIN records
    /\ DOMAIN records # {} /\ DOMAIN blobs # {}

\* C34: ensuring the storage container exists is idempotent: for any number
\* of runs of _init_storage, runs of concurrently constructed services
\* included, the container is created at most once and no run fails because
\* the container already exists.
C34_InitStorageIdempotent ==
  /\ bucket.made <= 1
  /\ bucket.failed = {}

\* C35: referential integrity between the stores: in every reachable state,
\* over any interleaving of uploads and deletes, every metadata record that
\* is visible names a storage path whose blob is present in object storage
\* (a blob may exist without a record, never a record without its blob).
C35_RecordHasItsBlob ==
  \A id \in DOMAIN records : records[id].storage_path \in DOMAIN blobs

\* C36: every record created by upload_file has a non-empty index-store
\* identifier, so chat on a record created by the ingestion pipeline never
\* fails with NotIndexed.
C36_PipelineRecordsAreLinked ==
  /\ \A id \in DOMAIN records : records[id].gemini_file_search_store_name # NoStore
  /\ \A r \in Reqs :
       arg[r].kind = "chat" /\ pc[r] = "failed" =>
         out[r].detail # "File is not yet linked to a Gemini File Search store"

\* a chat about a record of the pipeline issued its generation request
\* against the store that record names
C36_Witness ==
  \E q \in Reqs :
    /\ arg[q].kind = "chat" /\ pc[q] \in {"done", "failed"}
    /\ arg[q].id \in DOMAIN records
    /\ \E i \in 1..Len(gen) :
         /\ gen[i].by = q
         /\ gen[i].file_search_store_names =
              <<records[arg[q].id].gemini_file_search_store_name>>

\* the generation request of the i-th generate_content call of a chat
GenerationRequest(i) == [gen[i] EXCEPT !.by = 0]

\* the store identifier of the record the chat of the i-th call was about
StoreOfCall(i) == out[gen[i].by].data[1].gemini_file_search_store_name

\* C37: the generation request that chat(id, message) issues depends on the
\* record only through its store identifier: it names exactly the store of
\* the record, and for two records with the same store identifier and the
\* same message the requests are identical; and no operation (delete
\* included) ever removes an entry from the index store.
C37_ChatScopedToStoreOnly ==
  /\ [](\A i, j \in 1..Len(gen) :
          /\ gen[i].file_search_store_names = <<StoreOfCall(i)>>
          /\ (gen[i].contents = gen[j].contents /\ StoreOfCall(i) = StoreOfCall(j)) =>
               GenerationRequest(i) = GenerationRequest(j))
  /\ [][docs \subseteq docs']_vars

\* two chats with the same message about two different records of one store
\* have both issued their generation request
C37_Witness ==
  \E r, q \in Reqs :
    /\ r # q /\ arg[r].kind = "chat" /\ arg[q].kind = "chat"
    /\ arg[r].id # arg[q].id /\ arg[r].message = arg[q].message
    /\ \E i, j \in 1..Len(gen) :
         gen[i].by = r /\ gen[j].by = q /\ StoreOfCall(i) = StoreOfCall(j)

\* C38: temporary-file cleanup: on every exit path of upload_file (success,
\* a failing stream read or temp-file write, indexing failure, summarization
\* failure) the local temporary file created for the index upload no longer
\* exists when upload_file returns or raises.
C38_TempFileRemovedOnExit ==
  \A r \in Reqs :
    pc[r] \in {"done", "failed"} => loc[r].temp \in {"none", "unlinked"}

\* C39: every list response is internally consistent even with uploads and
\* deletes of other requests in flight around the listing's two separate
\* reads (the page query, then the count): the number of returned records
\* is at most page_size and at most max(0, total_files - (page-1)*page_size).
C39_ListResponseConsistent ==
  \A r \in Reqs :
    (arg[r].kind = "list" /\ pc[r] = "done") =>
      LET rest == out[r].pagination.total_files - (arg[r].page - 1) * arg[r].page_size
      IN /\ Len(out[r].files) <= arg[r].page_size
         /\ Len(out[r].files) <= (IF rest < 0 THEN 0 ELSE rest)

\* a listing returned records while a delete or an upload of another
\* request had arrived and was not finished
C39_Witness ==
  \E r, q \in Reqs :
    /\ arg[r].kind = "list" /\ pc[r] = "done" /\ Len(out[r].files) >= 2
    /\ q < r /\ pc[q] \in {"delete_lookup", "temp_read"}

\* C40: the two allowed-type sets agree: every type that the upload
\* validator accepts is also accepted by the type validator of the metadata
\* model, so every record written by the pipeline can be loaded as a
\* FileMetadata.
C40_AcceptedTypesLoadable ==
  /\ \A r \in Reqs :
       loc[r].file_type # NoType => ~validate_file_type(loc[r].file_type).raised
  /\ \A id \in DOMAIN records : ~validate_file_type(records[id].type).raised

====
